---- MODULE Spec2Model ----
(***************************************************************************)
(* TechCheck FDV thesis validator: the job orchestrator of app.py, the     *)
(* judgment call and the two-tier response parser of                       *)
(* simple_ai_validator.py, and the report renderer of pdf_annotator.py.    *)
(*                                                                         *)
(* Text is a sequence of one-character strings, so that find/rfind,        *)
(* slicing, upper(), strip(), split and substring tests are computed as    *)
(* Python computes them.  A decoded JSON value is a record [t, v]: t is    *)
(* the Python type of the value and v a sequence holding its content.      *)
(* Floats and the escapes \b, \f, \uXXXX are outside the modelled JSON     *)
(* alphabet.                                                               *)
(***************************************************************************)
EXTENDS Integers, Sequences, FiniteSets, TLC

VARIABLES
    validation_results,  \* app.py:51   job id -> job record
    uploads,             \* files present in UPLOAD_DIR
    outputs,             \* OUTPUT_DIR: path -> rendered artifact
    scheduled,           \* background tasks added and not yet started
    cur,                 \* job whose background task holds the event loop (0: none)
    pc,                  \* per job: the statement of process_validation it is at
    errors,              \* per job: the local variable `errors` of process_validation
    content,             \* per job: the content of the completion response it got
    pdf_text,            \* per job: the length of the text extracted from its document
    combined_text,       \* per job: the document text put into the prompt of its call
    renders,             \* per job: the renderers run for it, in the order they were tried
    calls,               \* per job: the completion calls made for it, each "returned" or "raised"
    issued,              \* uuid4 values drawn so far (a counter stands for them)
    rendered,            \* the renders asked of the plain-text renderer directly, with what each wrote
    env,                 \* process environment: reportlab installed, API key set
    extracted,           \* the text extraction last asked of a validator directly, with its text
    last                 \* the last POST /validate served: filename, status code, job id

vars ==
    <<validation_results, uploads, outputs, scheduled, cur, pc, errors, content,
      pdf_text, combined_text, renders, calls, issued, rendered, env, extracted, last>>

-----------------------------------------------------------------------------
(* String literals of the source, as character sequences.                  *)

K_page_num ==
    <<"p","a","g","e","_","n","u","m">>

K_severity ==
    <<"s","e","v","e","r","i","t","y">>

K_message ==
    <<"m","e","s","s","a","g","e">>

K_error_type ==
    <<"e","r","r","o","r","_","t","y","p","e">>

S_CRITICAL ==
    <<"C","R","I","T","I","C","A","L">>

S_MAJOR ==
    <<"M","A","J","O","R">>

S_MINOR ==
    <<"M","I","N","O","R">>

S_ERROR ==
    <<"E","R","R","O","R">>

S_VIOLATION ==
    <<"V","I","O","L","A","T","I","O","N">>

S_WRONG ==
    <<"W","R","O","N","G">>

S_MISSING ==
    <<"M","I","S","S","I","N","G">>

S_MUST ==
    <<"M","U","S","T">>

S_IMPORTANT ==
    <<"I","M","P","O","R","T","A","N","T">>

S_formatting ==
    <<"f","o","r","m","a","t","t","i","n","g">>

S_analysis ==
    <<"a","n","a","l","y","s","i","s">>

S_system_error ==
    <<"s","y","s","t","e","m","_","e","r","r","o","r">>

S_UNKNOWN ==
    <<"U","N","K","N","O","W","N">>

S_No_message ==
    <<"N","o"," ","m","e","s","s","a","g","e">>

S_AI_failed ==
    <<"A","I"," ","v","a","l","i","d","a","t","i","o","n"," ","f","a","i","l","e","d",":",
      " ">>

S_Validation_completed ==
    <<"V","a","l","i","d","a","t","i","o","n"," ","c","o","m","p","l","e","t","e","d",".",
      " ","A","I"," ","r","e","s","p","o","n","s","e",":"," ">>

S_dots ==
    <<".",".",".">>

S_dot_pdf ==
    <<".","p","d","f">>

LowerLetters ==
    <<"a","b","c","d","e","f","g","h","i","j","k","l","m","n","o","p","q","r","s","t","u",
      "v","w","x","y","z">>

UpperLetters ==
    <<"A","B","C","D","E","F","G","H","I","J","K","L","M","N","O","P","Q","R","S","T","U",
      "V","W","X","Y","Z">>

Digits ==
    <<"0","1","2","3","4","5","6","7","8","9">>

S_null ==
    <<"n","u","l","l">>

S_true ==
    <<"t","r","u","e">>

S_false ==
    <<"f","a","l","s","e">>

-----------------------------------------------------------------------------
(* Python str operations.                                                  *)

Min(a, b) ==
    IF a <= b THEN a ELSE b

\* str.find(c) for a one-character c: 0-based index of the first match, or -1.
PyFind(s, c) ==
    IF \E i \in 1..Len(s) : s[i] = c
    THEN (CHOOSE i \in 1..Len(s) : s[i] = c /\ \A k \in 1..(i - 1) : s[k] # c) - 1
    ELSE -1

\* str.rfind(c): 0-based index of the last match, or -1.
PyRFind(s, c) ==
    IF \E i \in 1..Len(s) : s[i] = c
    THEN (CHOOSE i \in 1..Len(s) : s[i] = c /\ \A k \in (i + 1)..Len(s) : s[k] # c) - 1
    ELSE -1

\* s[a:b] for non-negative a and b.
PySlice(s, a, b) ==
    IF a >= Min(b, Len(s)) THEN <<>> ELSE SubSeq(s, a + 1, Min(b, Len(s)))

\* lower-case letter -> upper-case letter
ToUpper ==
    [c \in {LowerLetters[i] : i \in 1..Len(LowerLetters)} |->
        UpperLetters[CHOOSE i \in 1..Len(LowerLetters) : LowerLetters[i] = c]]

\* upper-case letter -> lower-case letter
ToLower ==
    [c \in {UpperLetters[i] : i \in 1..Len(UpperLetters)} |->
        LowerLetters[CHOOSE i \in 1..Len(UpperLetters) : UpperLetters[i] = c]]

UpperChar(c) ==
    IF c \in DOMAIN ToUpper THEN ToUpper[c] ELSE c

LowerChar(c) ==
    IF c \in DOMAIN ToLower THEN ToLower[c] ELSE c

\* str.upper()
Upper(s) ==
    [i \in 1..Len(s) |-> UpperChar(s[i])]

\* str.lower()
Lower(s) ==
    [i \in 1..Len(s) |-> LowerChar(s[i])]

\* `sub in s`
Contains(s, sub) ==
    \E i \in 1..(Len(s) - Len(sub) + 1) : \A k \in 1..Len(sub) : s[i + k - 1] = sub[k]

\* s.endswith(suf)
EndsWith(s, suf) ==
    /\ Len(s) >= Len(suf)
    /\ SubSeq(s, Len(s) - Len(suf) + 1, Len(s)) = suf

Whitespace ==
    {" ", "\n", "\t", "\r"}

\* str.strip()
Strip(s) ==
    IF \A i \in 1..Len(s) : s[i] \in Whitespace
    THEN <<>>
    ELSE LET a == CHOOSE i \in 1..Len(s) :
                    s[i] \notin Whitespace /\ \A k \in 1..(i - 1) : s[k] \in Whitespace
             b == CHOOSE i \in 1..Len(s) :
                    s[i] \notin Whitespace /\ \A k \in (i + 1)..Len(s) : s[k] \in Whitespace
         IN  SubSeq(s, a, b)

RECURSIVE SplitLines(_)
\* s.split('\n')
SplitLines(s) ==
    IF PyFind(s, "\n") = -1
    THEN <<s>>
    ELSE LET i == PyFind(s, "\n") + 1
         IN  <<SubSeq(s, 1, i - 1)>> \o SplitLines(SubSeq(s, i + 1, Len(s)))

-----------------------------------------------------------------------------
(* Decoded values (what json.loads returns, and the dicts the code builds). *)

JNull ==
    [t |-> "NoneType", v |-> <<>>]

JBool(b) ==
    [t |-> "bool", v |-> <<b>>]

JNum(n) ==
    [t |-> "int", v |-> <<n>>]

JStr(s) ==
    [t |-> "str", v |-> s]

JList(xs) ==
    [t |-> "list", v |-> xs]

\* a dict: its items, in insertion order, each <<key, value>>
JDict(items) ==
    [t |-> "dict", v |-> items]

HasKey(d, k) ==
    \E i \in 1..Len(d.v) : d.v[i][1] = k

\* d.get(k, default)
DictGet(d, k, default) ==
    IF HasKey(d, k)
    THEN d.v[CHOOSE i \in 1..Len(d.v) : d.v[i][1] = k][2]
    ELSE default

\* d[k] = x on the item list: a repeated key keeps its place and takes the new value
DictSet(items, k, x) ==
    IF \E i \in 1..Len(items) : items[i][1] = k
    THEN [i \in 1..Len(items) |-> IF items[i][1] = k THEN <<k, x>> ELSE items[i]]
    ELSE Append(items, <<k, x>>)

-----------------------------------------------------------------------------
(* json.loads, for arrays, objects, strings, integers, null, true, false.  *)

JsonWs ==
    {" ", "\n", "\t", "\r"}

ParseFail ==
    [ok |-> FALSE, val |-> JNull, pos |-> 0]

ParseOk(x, p) ==
    [ok |-> TRUE, val |-> x, pos |-> p]

\* the character at position i, "" past the end
At(s, i) ==
    IF i \in 1..Len(s) THEN s[i] ELSE ""

SkipWs(s, i) ==
    CHOOSE j \in i..(Len(s) + 1) :
        /\ \A k \in i..(j - 1) : s[k] \in JsonWs
        /\ At(s, j) \notin JsonWs

IsDigit(c) ==
    \E i \in 1..Len(Digits) : Digits[i] = c

DigitVal(c) ==
    (CHOOSE i \in 1..Len(Digits) : Digits[i] = c) - 1

RECURSIVE ToInt(_)
ToInt(ds) ==
    IF ds = <<>> THEN 0
    ELSE ToInt(SubSeq(ds, 1, Len(ds) - 1)) * 10 + DigitVal(ds[Len(ds)])

\* the number of backslashes that end just before position m, counted from position lo on
BackslashRun(s, lo, m) ==
    CHOOSE n \in 0..(m - lo) :
        /\ (m - n = lo \/ s[m - n - 1] # "\\")
        /\ \A k \in (m - n)..(m - 1) : s[k] = "\\"

\* the characters of a string between its quotes at i and k: a backslash that is not
\* itself escaped starts an escape, a raw control character is an error
ParseChars(s, i, k) ==
    LET escaped(m) == BackslashRun(s, i + 1, m) % 2 = 1
        kept == {m \in (i + 1)..(k - 1) : ~(s[m] = "\\" /\ ~escaped(m))}
        char(m) == IF ~escaped(m) THEN s[m]
                   ELSE CASE s[m] = "n" -> "\n"
                          [] s[m] = "t" -> "\t"
                          [] s[m] = "r" -> "\r"
                          [] OTHER -> s[m]
        nth(j) == CHOOSE m \in kept : Cardinality({x \in kept : x < m}) = j - 1
    IN  IF \E m \in (i + 1)..(k - 1) :
              \/ escaped(m) /\ s[m] \notin {"\"", "\\", "/", "n", "t", "r"}
              \/ ~escaped(m) /\ s[m] \in {"\n", "\t", "\r"}
        THEN ParseFail
        ELSE IF \A m \in (i + 1)..(k - 1) : s[m] # "\\"
             THEN ParseOk(JStr(SubSeq(s, i + 1, k - 1)), k + 1)
             ELSE ParseOk(JStr([j \in 1..Cardinality(kept) |-> char(nth(j))]), k + 1)

\* s[i] is the opening quote; the string ends at the first quote that is not escaped
ParseString(s, i) ==
    IF \E k \in (i + 1)..Len(s) : s[k] = "\"" /\ BackslashRun(s, i + 1, k) % 2 = 0
    THEN ParseChars(s, i, CHOOSE k \in (i + 1)..Len(s) :
                             /\ s[k] = "\"" /\ BackslashRun(s, i + 1, k) % 2 = 0
                             /\ \A m \in (i + 1)..(k - 1) :
                                   ~(s[m] = "\"" /\ BackslashRun(s, i + 1, m) % 2 = 0))
    ELSE ParseFail

\* -?(0|[1-9][0-9]*)
ParseNumber(s, i) ==
    LET j == IF At(s, i) = "-" THEN i + 1 ELSE i
    IN  IF ~IsDigit(At(s, j)) THEN ParseFail
        ELSE LET e == IF s[j] = "0" THEN j
                      ELSE CHOOSE e \in j..Len(s) :
                             /\ \A k \in j..e : IsDigit(s[k])
                             /\ ~IsDigit(At(s, e + 1))
                 n == ToInt(SubSeq(s, j, e))
             IN  ParseOk(JNum(IF j = i THEN n ELSE -n), e + 1)

ParseLiteral(s, i, lit, x) ==
    IF SubSeq(s, i, Min(Len(s), i + Len(lit) - 1)) = lit
    THEN ParseOk(x, i + Len(lit))
    ELSE ParseFail

RECURSIVE ParseValue(_, _)
RECURSIVE ParseElems(_, _, _)
RECURSIVE ParseMembers(_, _, _)

ParseValue(s, i0) ==
    LET i == SkipWs(s, i0)
        c == At(s, i)
    IN  CASE c = "\"" -> ParseString(s, i)
          [] c = "[" -> LET j == SkipWs(s, i + 1)
                        IN  IF At(s, j) = "]" THEN ParseOk(JList(<<>>), j + 1)
                            ELSE ParseElems(s, j, <<>>)
          [] c = "{" -> LET j == SkipWs(s, i + 1)
                        IN  IF At(s, j) = "}" THEN ParseOk(JDict(<<>>), j + 1)
                            ELSE ParseMembers(s, j, <<>>)
          [] c = "-" \/ IsDigit(c) -> ParseNumber(s, i)
          [] c = "n" -> ParseLiteral(s, i, S_null, JNull)
          [] c = "t" -> ParseLiteral(s, i, S_true, JBool(TRUE))
          [] c = "f" -> ParseLiteral(s, i, S_false, JBool(FALSE))
          [] OTHER -> ParseFail

\* the elements of an array after "[": value ("," value)* "]"
ParseElems(s, i, acc) ==
    LET r == ParseValue(s, i)
    IN  IF ~r.ok THEN ParseFail
        ELSE LET j == SkipWs(s, r.pos)
             IN  CASE At(s, j) = "," -> ParseElems(s, j + 1, Append(acc, r.val))
                   [] At(s, j) = "]" -> ParseOk(JList(Append(acc, r.val)), j + 1)
                   [] OTHER -> ParseFail

\* the members of an object after "{": string ":" value ("," string ":" value)* "}"
ParseMembers(s, i, acc) ==
    IF At(s, i) # "\"" THEN ParseFail
    ELSE LET k == ParseString(s, i)
         IN  IF ~k.ok \/ At(s, SkipWs(s, k.pos)) # ":" THEN ParseFail
             ELSE LET r == ParseValue(s, SkipWs(s, k.pos) + 1)
                  IN  IF ~r.ok THEN ParseFail
                      ELSE LET j == SkipWs(s, r.pos)
                               items == DictSet(acc, k.val.v, r.val)
                           IN  CASE At(s, j) = "," ->
                                        ParseMembers(s, SkipWs(s, j + 1), items)
                                 [] At(s, j) = "}" -> ParseOk(JDict(items), j + 1)
                                 [] OTHER -> ParseFail

\* json.loads(s): one value, then nothing but whitespace
JsonLoads(s) ==
    LET r == ParseValue(s, 1)
    IN  IF r.ok /\ SkipWs(s, r.pos) = Len(s) + 1 THEN r ELSE ParseFail

-----------------------------------------------------------------------------
(* simple_ai_validator.py: the Finding Normalizer.                         *)

MinQuotedLen ==
    50

QuotePrefixLen ==
    200

TriggerWords ==
    {S_CRITICAL, S_MAJOR, S_MINOR, S_ERROR, S_VIOLATION, S_WRONG, S_MISSING}

\* any(word in line.upper() for word in [...])
IsTriggerLine(line) ==
    LET upper == Upper(line)
    IN  \E w \in TriggerWords : Contains(upper, w)

\* mutant: MUST not taken as a sign of a CRITICAL finding
LineSeverityWithoutMust(line) ==
    LET upper == Upper(line)
    IN  IF Contains(upper, S_CRITICAL)
        THEN S_CRITICAL
        ELSE IF Contains(upper, S_MAJOR) \/ Contains(upper, S_IMPORTANT)
             THEN S_MAJOR
             ELSE S_MINOR

LineSeverity(line) ==
    LET upper == Upper(line)
    IN  IF Contains(upper, S_CRITICAL) \/ Contains(upper, S_MUST)
        THEN S_CRITICAL
        ELSE IF Contains(upper, S_MAJOR) \/ Contains(upper, S_IMPORTANT)
             THEN S_MAJOR
             ELSE S_MINOR

\* the dict literal of the heuristic tier
TextFinding(severity, line) ==
    JDict(<< <<K_page_num, JNum(0)>>,
             <<K_severity, JStr(severity)>>,
             <<K_message, JStr(line)>>,
             <<K_error_type, JStr(S_formatting)>> >>)

EmptyDict ==
    JDict(<<>>)

RECURSIVE ScanLines(_, _, _)
\* the for loop over the lines: <<errors, current_error>> after the last line
ScanLines(lines, errs, current) ==
    IF lines = <<>> THEN <<errs, current>>
    ELSE LET line == Strip(Head(lines))
         IN  IF line = <<>> THEN ScanLines(Tail(lines), errs, current)
             ELSE IF IsTriggerLine(line)
                  THEN ScanLines(Tail(lines),
                                 IF current # EmptyDict THEN Append(errs, current) ELSE errs,
                                 TextFinding(LineSeverity(line), line))
                  ELSE ScanLines(Tail(lines), errs, current)

\* mutant: the whole response quoted, not a prefix of it
QuotedFindingUntruncated(response) ==
    JDict(<< <<K_page_num, JNum(0)>>,
             <<K_severity, JStr(S_MAJOR)>>,
             <<K_message, JStr(S_Validation_completed \o response \o S_dots)>>,
             <<K_error_type, JStr(S_analysis)>> >>)

\* the finding made of the whole response when no line was a finding
QuotedFinding(response) ==
    JDict(<< <<K_page_num, JNum(0)>>,
             <<K_severity, JStr(S_MAJOR)>>,
             <<K_message,
               JStr(S_Validation_completed \o PySlice(response, 0, QuotePrefixLen) \o S_dots)>>,
             <<K_error_type, JStr(S_analysis)>> >>)

parse_text_response(response) ==
    LET r == ScanLines(SplitLines(response), <<>>, EmptyDict)
        errs == IF r[2] # EmptyDict THEN Append(r[1], r[2]) ELSE r[1]
    IN  IF errs = <<>> /\ Len(response) > MinQuotedLen
        THEN <<QuotedFinding(response)>>
        ELSE errs

\* mutant: the region closed at the first "]" instead of the last
BracketRegionToFirstClose(ai_response) ==
    PySlice(ai_response, PyFind(ai_response, "["), PyFind(ai_response, "]") + 1)

\* the text between the first "[" and the last "]", both included
BracketRegion(ai_response) ==
    PySlice(ai_response, PyFind(ai_response, "["), PyRFind(ai_response, "]") + 1)

HasBracketRegion(ai_response) ==
    PyFind(ai_response, "[") # -1 /\ PyRFind(ai_response, "]") + 1 # 0

\* the decoded list is returned as it is; any decoding error falls back to the text tier
parse_ai_response(ai_response) ==
    IF HasBracketRegion(ai_response) /\ JsonLoads(BracketRegion(ai_response)).ok
    THEN JsonLoads(BracketRegion(ai_response)).val.v
    ELSE parse_text_response(ai_response)

\* mutant: the synthetic finding without the failure description
SystemErrorFindingNoDesc(desc) ==
    JDict(<< <<K_page_num, JNum(0)>>,
             <<K_severity, JStr(S_CRITICAL)>>,
             <<K_message, JStr(S_AI_failed)>>,
             <<K_error_type, JStr(S_system_error)>> >>)

\* the finding the except branch of validate_with_ai returns
SystemErrorFinding(desc) ==
    JDict(<< <<K_page_num, JNum(0)>>,
             <<K_severity, JStr(S_CRITICAL)>>,
             <<K_message, JStr(S_AI_failed \o desc)>>,
             <<K_error_type, JStr(S_system_error)>> >>)

\* mutant: a failed call swallowed, as validate_overall_structure does
validate_with_ai_swallowing(outcome) ==
    IF outcome.ok
    THEN parse_ai_response(outcome.text)
    ELSE <<>>

\* the try block of validate_with_ai on one outcome of the completion call:
\* [ok |-> TRUE, text |-> the response content] or [ok |-> FALSE, text |-> str(e)]
validate_with_ai(outcome) ==
    IF outcome.ok
    THEN parse_ai_response(outcome.text)
    ELSE <<SystemErrorFinding(outcome.text)>>

\* S_Section_failed = 'Section validation failed: '
S_Section_failed ==
    <<"S","e","c","t","i","o","n"," ","v","a","l","i","d","a","t","i","o","n"," ","f","a",
      "i","l","e","d",":"," ">>

\* the finding the except branch of validate_section returns
SectionErrorFinding(desc) ==
    JDict(<< <<K_page_num, JNum(0)>>,
             <<K_severity, JStr(S_CRITICAL)>>,
             <<K_message, JStr(S_Section_failed \o desc)>>,
             <<K_error_type, JStr(S_system_error)>> >>)

\* the section types validate_section tells apart; any other value is treated as
\* the end matter
SectionTypes ==
    {"front_matter", "content", "end_matter"}

\* the try block of validate_section on one outcome of its completion call; the
\* section type selects the focus text of the prompt and nothing else, and the prompt's
\* "Maximum 8 errors per section" is an instruction to the model only
validate_section(section_type, outcome) ==
    IF outcome.ok
    THEN parse_ai_response(outcome.text)
    ELSE <<SectionErrorFinding(outcome.text)>>

\* the try block of validate_overall_structure on one outcome of its completion call;
\* the prompt's "Maximum 3 errors" is an instruction to the model only
validate_overall_structure(outcome) ==
    IF outcome.ok
    THEN parse_ai_response(outcome.text)
    ELSE <<>>

-----------------------------------------------------------------------------
(* simple_ai_validator.py: the sample of the document put into the prompt. *)
(* The extracted text is taken by its length; a slice of it is the range   *)
(* of positions [from, to) it keeps, computed as Python computes s[a:b].   *)

\* front_text = pdf_text[:10000]
FrontLen ==
    10000

\* if len(pdf_text) > 20000
SampleThreshold ==
    20000

\* pdf_text[len(pdf_text)//2 : len(pdf_text)//2 + 5000]
MiddleLen ==
    5000

\* pdf_text[-5000:]
EndLen ==
    5000

\* pdf_text[:20000]
ShortTextLen ==
    20000

\* a slice index brought into 0..n: a negative index counts from the end
PyIndex(n, i) ==
    IF i < 0
    THEN (IF n + i < 0 THEN 0 ELSE n + i)
    ELSE Min(i, n)

\* pdf_text[a:b] of a text of length n
Chars(n, a, b) ==
    [kind |-> "chars",
     from |-> PyIndex(n, a),
     to |-> IF PyIndex(n, b) < PyIndex(n, a) THEN PyIndex(n, a) ELSE PyIndex(n, b),
     text |-> ""]

\* literal text of the f-string
Literal(s) ==
    [kind |-> "literal", from |-> 0, to |-> 0, text |-> s]

\* mutant: a text of exactly the threshold length is sampled too
SampleTextFromThreshold(pdf_len) ==
    IF pdf_len >= SampleThreshold
    THEN << Chars(pdf_len, 0, FrontLen),
            Literal("\n\n--- MIDDLE SAMPLE ---\n"),
            Chars(pdf_len, pdf_len \div 2, pdf_len \div 2 + MiddleLen),
            Literal("\n\n--- END SECTION ---\n"),
            Chars(pdf_len, 0 - EndLen, pdf_len) >>
    ELSE << Chars(pdf_len, 0, ShortTextLen) >>

\* combined_text of validate_with_ai, for an extracted text of pdf_len characters
SampleText(pdf_len) ==
    IF pdf_len > SampleThreshold
    THEN << Chars(pdf_len, 0, FrontLen),
            Literal("\n\n--- MIDDLE SAMPLE ---\n"),
            Chars(pdf_len, pdf_len \div 2, pdf_len \div 2 + MiddleLen),
            Literal("\n\n--- END SECTION ---\n"),
            Chars(pdf_len, 0 - EndLen, pdf_len) >>
    ELSE << Chars(pdf_len, 0, ShortTextLen) >>

MaxTextThousands ==
    40

\* lengths of extracted text: the multiples of 1000 and the lengths next to the threshold
TextLengths ==
    {1000 * k : k \in 0..MaxTextThousands}
        \cup {1, SampleThreshold - 1, SampleThreshold + 1, 25001}

-----------------------------------------------------------------------------
(* The structured-tier input format: a finding list written as a JSON      *)
(* array, as json.dumps writes it.                                         *)

RECURSIVE IntToStr(_)
\* the decimal digits of a natural number
IntToStr(n) ==
    IF n < 10 THEN <<Digits[n + 1]>>
    ELSE IntToStr(n \div 10) \o <<Digits[(n % 10) + 1]>>

RECURSIVE Escaped(_)
\* the characters of a string as they stand between the quotes
Escaped(s) ==
    IF s = <<>> THEN <<>>
    ELSE (CASE Head(s) = "\"" -> <<"\\", "\"">>
            [] Head(s) = "\\" -> <<"\\", "\\">>
            [] Head(s) = "\n" -> <<"\\", "n">>
            [] OTHER -> <<Head(s)>>) \o Escaped(Tail(s))

DumpStr(s) ==
    <<"\"">> \o Escaped(s) \o <<"\"">>

\* a string or a natural number
DumpScalar(x) ==
    IF x.t = "str" THEN DumpStr(x.v) ELSE IntToStr(x.v[1])

RECURSIVE JoinWith(_, _)
\* sep.join(texts)
JoinWith(texts, sep) ==
    IF texts = <<>> THEN <<>>
    ELSE IF Len(texts) = 1 THEN texts[1]
         ELSE texts[1] \o sep \o JoinWith(Tail(texts), sep)

\* {"key": value, ...} of a record of scalars
DumpRecord(x) ==
    <<"{">>
    \o JoinWith([i \in 1..Len(x.v) |-> DumpStr(x.v[i][1]) \o <<":", " ">> \o DumpScalar(x.v[i][2])],
                <<",", " ">>)
    \o <<"}">>

\* json.dumps(findings)
JsonDumps(findings) ==
    <<"[">>
    \o JoinWith([i \in 1..Len(findings) |-> DumpRecord(findings[i])], <<",", " ">>)
    \o <<"]">>

\* a Finding record: page number, severity, message, category
Finding(page_num, severity, message, error_type) ==
    JDict(<< <<K_page_num, JNum(page_num)>>,
             <<K_severity, JStr(severity)>>,
             <<K_message, JStr(message)>>,
             <<K_error_type, JStr(error_type)>> >>)

\* M_brackets = "Name is 'X' [title page]"
M_brackets ==
    <<"N","a","m","e"," ","i","s"," ","'","X","'"," ","[","t","i","t","l","e"," ","p","a",
      "g","e","]">>

\* M_quotes = 'Use "Times" font'
M_quotes ==
    <<"U","s","e"," ","\"","T","i","m","e","s","\""," ","f","o","n","t">>

\* M_reversed = 'a]b[c\\d'
M_reversed ==
    <<"a","]","b","[","c","\\","d">>

\* M_lines = 'line one\nline two'
M_lines ==
    <<"l","i","n","e"," ","o","n","e","\n","l","i","n","e"," ","t","w","o">>

SampleFindings ==
    {Finding(0, S_CRITICAL, M_brackets, S_formatting),
     Finding(12, S_MAJOR, M_quotes, S_analysis),
     Finding(3, S_MINOR, M_reversed, S_formatting),
     Finding(0, S_MAJOR, M_lines, S_system_error)}

MaxFindings ==
    2

\* the finding lists of up to MaxFindings findings, the empty list included
FindingLists ==
    UNION {[1..n -> SampleFindings] : n \in 0..MaxFindings}

\* each finding list with its serialization
SerializedLists ==
    {[findings |-> fl, text |-> JsonDumps(fl)] : fl \in FindingLists}

-----------------------------------------------------------------------------
(* What the collaborators can do: str(e) of the exceptions they raise, and *)
(* the responses of the completion service.                                *)

E_pdf_read ==
    <<"E","O","F"," ","m","a","r","k","e","r"," ","n","o","t"," ","f","o","u","n","d">>

E_api_key ==
    <<"T","h","e"," ","a","p","i","_","k","e","y"," ","c","l","i","e","n","t"," ","o","p",
      "t","i","o","n"," ","m","u","s","t"," ","b","e"," ","s","e","t">>

E_timeout ==
    <<"R","e","q","u","e","s","t"," ","t","i","m","e","d"," ","o","u","t",".">>

E_auth ==
    <<"E","r","r","o","r"," ","c","o","d","e",":"," ","4","0","1">>

E_no_get ==
    <<"o","b","j","e","c","t"," ","h","a","s"," ","n","o"," ","a","t","t","r","i","b","u",
      "t","e"," ","'","g","e","t","'">>

E_unhashable ==
    <<"u","n","h","a","s","h","a","b","l","e"," ","t","y","p","e">>

E_page_add ==
    <<"u","n","s","u","p","p","o","r","t","e","d"," ","o","p","e","r","a","n","d"," ","t",
      "y","p","e","(","s",")"," ","f","o","r"," ","+">>

E_no_split ==
    <<"o","b","j","e","c","t"," ","h","a","s"," ","n","o"," ","a","t","t","r","i","b","u",
      "t","e"," ","'","s","p","l","i","t","'">>

E_import ==
    <<"N","o"," ","m","o","d","u","l","e"," ","n","a","m","e","d"," ","'","r","e","p","o",
      "r","t","l","a","b","'">>

E_io ==
    <<"N","o"," ","s","p","a","c","e"," ","l","e","f","t"," ","o","n"," ","d","e","v","i",
      "c","e">>

\* L_must = 'MUST be UNIVERZA V LJUBLJANI'
L_must ==
    <<"M","U","S","T"," ","b","e"," ","U","N","I","V","E","R","Z","A"," ","V"," ","L","J",
      "U","B","L","J","A","N","I">>

\* L_missing = 'Missing abstract'
L_missing ==
    <<"M","i","s","s","i","n","g"," ","a","b","s","t","r","a","c","t">>

\* L_important = '  important: font is wrong  '
L_important ==
    <<" "," ","i","m","p","o","r","t","a","n","t",":"," ","f","o","n","t"," ","i","s"," ",
      "w","r","o","n","g"," "," ">>

\* L_minority = 'minority view'
L_minority ==
    <<"m","i","n","o","r","i","t","y"," ","v","i","e","w">>

\* L_critical = 'Critical: title page'
L_critical ==
    <<"C","r","i","t","i","c","a","l",":"," ","t","i","t","l","e"," ","p","a","g","e">>

\* L_fine = 'fine'
L_fine ==
    <<"f","i","n","e">>

\* L_blank = '  '
L_blank ==
    <<" "," ">>

\* L_prose = 'The thesis follows the faculty template on every page checked.'
L_prose ==
    <<"T","h","e"," ","t","h","e","s","i","s"," ","f","o","l","l","o","w","s"," ","t","h",
      "e"," ","f","a","c","u","l","t","y"," ","t","e","m","p","l","a","t","e"," ","o","n",
      " ","e","v","e","r","y"," ","p","a","g","e"," ","c","h","e","c","k","e","d",".">>

\* L_long = 'The title page, the declaration of authorship, the summary in both languages, the table of contents, the list of abbreviations, the body chapters and the list of sources all follow the faculty template, and nothing needs changing.'
L_long ==
    <<"T","h","e"," ","t","i","t","l","e"," ","p","a","g","e",","," ","t","h","e"," ","d",
      "e","c","l","a","r","a","t","i","o","n"," ","o","f"," ","a","u","t","h","o","r","s",
      "h","i","p",","," ","t","h","e"," ","s","u","m","m","a","r","y"," ","i","n"," ","b",
      "o","t","h"," ","l","a","n","g","u","a","g","e","s",","," ","t","h","e"," ","t","a",
      "b","l","e"," ","o","f"," ","c","o","n","t","e","n","t","s",","," ","t","h","e"," ",
      "l","i","s","t"," ","o","f"," ","a","b","b","r","e","v","i","a","t","i","o","n","s",
      ","," ","t","h","e"," ","b","o","d","y"," ","c","h","a","p","t","e","r","s"," ","a",
      "n","d"," ","t","h","e"," ","l","i","s","t"," ","o","f"," ","s","o","u","r","c","e",
      "s"," ","a","l","l"," ","f","o","l","l","o","w"," ","t","h","e"," ","f","a","c","u",
      "l","t","y"," ","t","e","m","p","l","a","t","e",","," ","a","n","d"," ","n","o","t",
      "h","i","n","g"," ","n","e","e","d","s"," ","c","h","a","n","g","i","n","g",".">>

\* L_must_wrong = 'The declaration must not be in the wrong place'
L_must_wrong ==
    <<"T","h","e"," ","d","e","c","l","a","r","a","t","i","o","n"," ","m","u","s","t"," ",
      "n","o","t"," ","b","e"," ","i","n"," ","t","h","e"," ","w","r","o","n","g"," ","p",
      "l","a","c","e">>

SampleLines ==
    {L_must, L_missing, L_important, L_minority, L_critical, L_fine, L_blank, L_prose,
     L_long, L_must_wrong}

MaxLines ==
    2

RECURSIVE JoinLines(_)
\* "\n".join(lines)
JoinLines(lines) ==
    IF Len(lines) = 0 THEN <<>>
    ELSE IF Len(lines) = 1 THEN lines[1]
         ELSE lines[1] \o <<"\n">> \o JoinLines(Tail(lines))

\* responses without a bracketed list: up to MaxLines sample lines
LineResponses ==
    {JoinLines(ls) : ls \in UNION {[1..n -> SampleLines] : n \in 1..MaxLines}}

\* R_json_full = '[{"page_num": 1, "severity": "MAJOR", "message": "Margins", "error_type": "layout"}]'
R_json_full ==
    <<"[","{","\"","p","a","g","e","_","n","u","m","\"",":"," ","1",","," ","\"","s","e",
      "v","e","r","i","t","y","\"",":"," ","\"","M","A","J","O","R","\"",","," ","\"","m",
      "e","s","s","a","g","e","\"",":"," ","\"","M","a","r","g","i","n","s","\"",","," ",
      "\"","e","r","r","o","r","_","t","y","p","e","\"",":"," ","\"","l","a","y","o","u",
      "t","\"","}","]">>

\* R_json_bare = 'Found: [{"message": "No abstract"}] end'
R_json_bare ==
    <<"F","o","u","n","d",":"," ","[","{","\"","m","e","s","s","a","g","e","\"",":"," ",
      "\"","N","o"," ","a","b","s","t","r","a","c","t","\"","}","]"," ","e","n","d">>

\* R_json_sev = '[{"severity": "HIGH", "message": ""}]'
R_json_sev ==
    <<"[","{","\"","s","e","v","e","r","i","t","y","\"",":"," ","\"","H","I","G","H","\"",
      ","," ","\"","m","e","s","s","a","g","e","\"",":"," ","\"","\"","}","]">>

\* R_json_ints = '[1, 2]'
R_json_ints ==
    <<"[","1",","," ","2","]">>

\* R_json_page = '[{"page_num": "2", "severity": "CRITICAL", "message": "Title"}]'
R_json_page ==
    <<"[","{","\"","p","a","g","e","_","n","u","m","\"",":"," ","\"","2","\"",","," ","\"",
      "s","e","v","e","r","i","t","y","\"",":"," ","\"","C","R","I","T","I","C","A","L",
      "\"",","," ","\"","m","e","s","s","a","g","e","\"",":"," ","\"","T","i","t","l","e",
      "\"","}","]">>

\* R_json_two = '[{"severity": "MINOR", "message": "Font"}, {"severity": "CRITICAL", "message": "Name"}]'
R_json_two ==
    <<"[","{","\"","s","e","v","e","r","i","t","y","\"",":"," ","\"","M","I","N","O","R",
      "\"",","," ","\"","m","e","s","s","a","g","e","\"",":"," ","\"","F","o","n","t","\"",
      "}",","," ","{","\"","s","e","v","e","r","i","t","y","\"",":"," ","\"","C","R","I",
      "T","I","C","A","L","\"",","," ","\"","m","e","s","s","a","g","e","\"",":"," ","\"",
      "N","a","m","e","\"","}","]">>

\* R_reversed = '] wrong order ['
R_reversed ==
    <<"]"," ","w","r","o","n","g"," ","o","r","d","e","r"," ","[">>

\* R_not_json = '[see errors below]'
R_not_json ==
    <<"[","s","e","e"," ","e","r","r","o","r","s"," ","b","e","l","o","w","]">>

\* R_unclosed = 'critical: [unclosed'
R_unclosed ==
    <<"c","r","i","t","i","c","a","l",":"," ","[","u","n","c","l","o","s","e","d">>

\* R_empty_list = '[]'
R_empty_list ==
    <<"[","]">>

\* R_two_lists = '[1] and [2]'
R_two_lists ==
    <<"[","1","]"," ","a","n","d"," ","[","2","]">>

BracketResponses ==
    {R_json_full, R_json_bare, R_json_sev, R_json_ints, R_json_page, R_json_two,
     R_reversed, R_not_json, R_unclosed, R_empty_list, R_two_lists}

\* the responses the normalizer is checked on
Responses ==
    LineResponses \cup BracketResponses \cup {sl.text : sl \in SerializedLists}

\* R_json_long = '[{"page_num": 7, "severity": "MAJOR", "message": "The left margin  is 2.5 cm on pages 3 to 41, where the template asks for 3.0 cm; reset it in the page layout."}]'
R_json_long ==
    <<"[","{","\"","p","a","g","e","_","n","u","m","\"",":"," ","7",","," ","\"","s","e",
      "v","e","r","i","t","y","\"",":"," ","\"","M","A","J","O","R","\"",","," ","\"","m",
      "e","s","s","a","g","e","\"",":"," ","\"","T","h","e"," ","l","e","f","t"," ","m","a",
      "r","g","i","n"," "," ","i","s"," ","2",".","5"," ","c","m"," ","o","n"," ","p","a",
      "g","e","s"," ","3"," ","t","o"," ","4","1",","," ","w","h","e","r","e"," ","t","h",
      "e"," ","t","e","m","p","l","a","t","e"," ","a","s","k","s"," ","f","o","r"," ","3",
      ".","0"," ","c","m",";"," ","r","e","s","e","t"," ","i","t"," ","i","n"," ","t","h",
      "e"," ","p","a","g","e"," ","l","a","y","o","u","t",".","\"","}","]">>

\* R_json_msgnum = '[{"severity": "MAJOR", "message": 5}]'
R_json_msgnum ==
    <<"[","{","\"","s","e","v","e","r","i","t","y","\"",":"," ","\"","M","A","J","O","R",
      "\"",","," ","\"","m","e","s","s","a","g","e","\"",":"," ","5","}","]">>

\* R_json_nomsg = '[{"page_num": 4, "severity": "MINOR"}]'
R_json_nomsg ==
    <<"[","{","\"","p","a","g","e","_","n","u","m","\"",":"," ","4",","," ","\"","s","e",
      "v","e","r","i","t","y","\"",":"," ","\"","M","I","N","O","R","\"","}","]">>

\* the responses the renderers are checked on
RenderResponses ==
    {R_json_full, R_json_sev, R_json_ints, R_json_page, R_json_two, R_json_long,
     R_json_msgnum, R_json_nomsg, L_missing, L_fine}
        \cup {sl.text : sl \in SerializedLists}

\* the responses the jobs of the orchestrator receive
JobResponses ==
    {R_json_two, R_json_sev, R_json_ints, L_missing, L_fine}

CallFailures ==
    {E_timeout, E_auth}

CallOutcomes ==
    [ok : {TRUE}, text : JobResponses] \cup [ok : {FALSE}, text : CallFailures]

RenderOutcomes ==
    [ok : {TRUE}, text : RenderResponses] \cup [ok : {FALSE}, text : CallFailures]

NormalizerOutcomes ==
    [ok : {TRUE}, text : Responses] \cup [ok : {FALSE}, text : CallFailures]

-----------------------------------------------------------------------------
(* simple_ai_validator.py and ultra_simple_pdf.py: the text extraction.    *)
(* A document is what PyPDF2 makes of the file: readable or not, and for   *)
(* each page what page.extract_text() does, return a text or raise.        *)

\* S_PAGE_open = '\n\n--- PAGE '
S_PAGE_open ==
    <<"\n","\n","-","-","-"," ","P","A","G","E"," ">>

\* S_PAGE_close = ' ---\n'
S_PAGE_close ==
    <<" ","-","-","-","\n">>

\* S_Error_extracting = 'Error extracting: '
S_Error_extracting ==
    <<"E","r","r","o","r"," ","e","x","t","r","a","c","t","i","n","g",":"," ">>

\* S_Error_extracting_text = 'Error extracting text: '
S_Error_extracting_text ==
    <<"E","r","r","o","r"," ","e","x","t","r","a","c","t","i","n","g"," ","t","e","x","t",
      ":"," ">>

\* S_Error_reading = 'Error reading PDF: '
S_Error_reading ==
    <<"E","r","r","o","r"," ","r","e","a","d","i","n","g"," ","P","D","F",":"," ">>

\* E_no_contents = "'/Contents'"
E_no_contents ==
    <<"'","/","C","o","n","t","e","n","t","s","'">>

\* P_title = 'Title'
P_title ==
    <<"T","i","t","l","e">>

\* P_two_lines = '1 Introduction\n\nThesis'
P_two_lines ==
    <<"1"," ","I","n","t","r","o","d","u","c","t","i","o","n","\n","\n","T","h","e","s","i",
      "s">>

\* P_quoting = 'see --- PAGE 1 --- above'
P_quoting ==
    <<"s","e","e"," ","-","-","-"," ","P","A","G","E"," ","1"," ","-","-","-"," ","a","b",
      "o","v","e">>

\* a code point that UTF-8 cannot encode (a lone surrogate), as one character
LoneSurrogate ==
    "U+D800"

\* P_surrogate = 'a' + '\ud800' + 'b'
P_surrogate ==
    <<"a", LoneSurrogate, "b">>

\* text.encode("utf-8", errors="replace").decode("utf-8")
Utf8Replace(text) ==
    [i \in 1..Len(text) |-> IF text[i] = LoneSurrogate THEN "?" ELSE text[i]]

\* what page.extract_text() does: [ok |-> TRUE, text |-> the text] or
\* [ok |-> FALSE, text |-> str(e)]
PageOutcomes ==
    [ok : {TRUE}, text : {<<>>, P_title, P_two_lines, P_quoting, P_surrogate}]
        \cup [ok : {FALSE}, text : {E_no_contents}]

MaxPages ==
    3

\* the documents: unreadable ones, and readable ones of up to MaxPages pages
Documents ==
    [readable : {FALSE}, desc : {E_pdf_read}, pages : {<<>>}]
        \cup [readable : {TRUE}, desc : {<<>>},
              pages : UNION {[1..n -> PageOutcomes] : n \in 0..MaxPages}]

\* f"\n\n--- PAGE {i+1} ---\n"
PageDelimiter(k) ==
    S_PAGE_open \o IntToStr(k) \o S_PAGE_close

\* what the loop body adds to full_text for page k (i = k - 1)
PageBlock(k, page) ==
    IF page.ok
    THEN PageDelimiter(k) \o Utf8Replace(page.text)
    ELSE PageDelimiter(k) \o S_Error_extracting \o page.text

RECURSIVE ExtractPages(_, _)
\* full_text after the pages up to the k-th
ExtractPages(pages, k) ==
    IF k = 0 THEN <<>> ELSE ExtractPages(pages, k - 1) \o PageBlock(k, pages[k])

\* the first page whose extract_text raises, 0 if none does
FirstFailingPage(pages) ==
    IF \E k \in 1..Len(pages) : ~pages[k].ok
    THEN CHOOSE k \in 1..Len(pages) : ~pages[k].ok /\ \A i \in 1..(k - 1) : pages[i].ok
    ELSE 0

\* mutant: no try around the page, so that the first page that raises ends the loop
\* in the outer except
extract_pdf_text_aborting(doc) ==
    IF ~doc.readable THEN S_Error_reading \o doc.desc
    ELSE IF FirstFailingPage(doc.pages) # 0
         THEN S_Error_reading \o doc.pages[FirstFailingPage(doc.pages)].text
         ELSE ExtractPages(doc.pages, Len(doc.pages))

\* SimpleAIValidator.extract_pdf_text
extract_pdf_text(doc) ==
    IF ~doc.readable THEN S_Error_reading \o doc.desc
    ELSE ExtractPages(doc.pages, Len(doc.pages))

\* UltraSimplePDFProcessor.extract_text_from_page, page_num counted from 0
extract_text_from_page(doc, page_num) ==
    IF page_num >= Len(doc.pages) THEN <<>>
    ELSE IF doc.pages[page_num + 1].ok
         THEN Utf8Replace(doc.pages[page_num + 1].text)
         ELSE S_Error_extracting_text \o doc.pages[page_num + 1].text

-----------------------------------------------------------------------------
(* pdf_annotator.py: the Report Renderer.                                  *)

SeverityOf(error) ==
    DictGet(error, K_severity, JStr(S_UNKNOWN))

MessageOf(error) ==
    DictGet(error, K_message, JStr(S_No_message))

PageOf(error) ==
    DictGet(error, K_page_num, JNum(0))

\* error.get(...) needs a dict; `severity in error_counts` hashes the severity
CountFault(error) ==
    IF error.t # "dict" THEN E_no_get
    ELSE IF SeverityOf(error).t \in {"list", "dict"} THEN E_unhashable
         ELSE <<>>

\* f"{page_num + 1}" needs a number
PageFault(error) ==
    IF PageOf(error).t \notin {"int", "bool"} THEN E_page_add ELSE <<>>

\* message.split() needs a str (PDFAnnotator only)
SplitFault(error) ==
    IF MessageOf(error).t # "str" THEN E_no_split ELSE <<>>

\* str(e) of the first exception a loop raises, <<>> if none: faults[i] is the
\* exception of the loop's i-th iteration
FirstFault(faults) ==
    IF \E i \in 1..Len(faults) : faults[i] # <<>>
    THEN faults[CHOOSE i \in 1..Len(faults) :
                   faults[i] # <<>> /\ \A k \in 1..(i - 1) : faults[k] = <<>>]
    ELSE <<>>

RichDetailFault(error) ==
    IF PageFault(error) # <<>> THEN PageFault(error) ELSE SplitFault(error)

\* error_counts after the summary loop
ErrorCounts(errs) ==
    [s \in {S_CRITICAL, S_MAJOR, S_MINOR} |->
        Cardinality({i \in 1..Len(errs) : SeverityOf(errs[i]) = JStr(s)})]

PagePlusOne(error) ==
    IF PageOf(error).t = "bool"
    THEN (IF PageOf(error).v[1] THEN 2 ELSE 1)
    ELSE PageOf(error).v[1] + 1

\* the position at which the word of s that starts at position a ends
WordEnd(s, a) ==
    CHOOSE e \in a..Len(s) :
        /\ (e = Len(s) \/ s[e + 1] \in Whitespace)
        /\ \A k \in a..e : s[k] \notin Whitespace

RECURSIVE SplitFrom(_, _)
\* the words of s from position i on, left to right: a is the position at which the
\* first of them starts and e the one at which it ends
SplitFrom(s, i) ==
    IF \A k \in i..Len(s) : s[k] \in Whitespace
    THEN <<>>
    ELSE CHOOSE words \in
             UNION {{<<SubSeq(s, a, e)>> \o SplitFrom(s, e + 1) : e \in {WordEnd(s, a)}} :
                       a \in {k \in i..Len(s) :
                                 s[k] \notin Whitespace /\ \A m \in i..(k - 1) : s[m] \in Whitespace}} :
                 TRUE

\* message.split()
Split(s) ==
    SplitFrom(s, 1)

\* if len(line + word) > 80
WrapWidth ==
    80

RECURSIVE WrapWords(_, _, _)
\* the loop over the words: <<the strings drawn, line>> after the last word; next is
\* <<line, drawn>> after the first of the words
WrapWords(words, line, drawn) ==
    IF words = <<>> THEN <<drawn, line>>
    ELSE CHOOSE r \in
             {WrapWords(Tail(words), next[1], next[2]) :
                 next \in {IF Len(line \o Head(words)) > WrapWidth
                           THEN <<Head(words) \o <<" ">>, Append(drawn, line)>>
                           ELSE <<line \o Head(words) \o <<" ">>, drawn>>}} :
             TRUE

\* the strings PDFAnnotator draws for a message: its words, wrapped
MessageLines(message) ==
    CHOOSE lines \in
        {IF r[2] # <<>> THEN Append(r[1], r[2]) ELSE r[1] :
            r \in {WrapWords(words, <<>>, <<>>) : words \in {Split(message)}}} :
        TRUE

\* f"{value}" of a decoded value; a list or dict stands for its repr
Format(x) ==
    CASE x.t = "str" -> x.v
      [] x.t = "int" -> (IF x.v[1] < 0 THEN <<"-">> \o IntToStr(0 - x.v[1])
                         ELSE IntToStr(x.v[1]))
      [] x.t = "bool" -> (IF x.v[1] THEN <<"T","r","u","e">> ELSE <<"F","a","l","s","e">>)
      [] x.t = "NoneType" -> <<"N","o","n","e">>
      [] OTHER -> <<x>>

\* PDFAnnotator: per finding, the heading "{i}. Page {page_num + 1} - {severity}" and
\* the lines of the wrapped message
RichDetails(errs) ==
    [i \in 1..Len(errs) |->
        [number |-> i, page |-> PagePlusOne(errs[i]), severity |-> Format(SeverityOf(errs[i])),
         lines |-> MessageLines(MessageOf(errs[i]).v)]]

\* SimpleTextAnnotator: per finding, the same heading and the line f"   {message}"
TextDetails(errs) ==
    [i \in 1..Len(errs) |->
        [number |-> i, page |-> PagePlusOne(errs[i]), severity |-> Format(SeverityOf(errs[i])),
         lines |-> << <<" ", " ", " ">> \o Format(MessageOf(errs[i])) >>]]

\* self.original_path.name
PathName(path) ==
    SubSeq(path, 2, Len(path))

\* what a report says: the original file's name, the total, the three counts, the details
Artifact(renderer, name, errs) ==
    [renderer |-> renderer, original |-> PathName(name), total |-> Len(errs),
     counts |-> ErrorCounts(errs),
     details |-> IF renderer = "text" THEN TextDetails(errs) ELSE RichDetails(errs)]

Raised(desc) ==
    [ok |-> FALSE, desc |-> desc, artifact |-> <<>>]

Returned(artifact) ==
    [ok |-> TRUE, desc |-> <<>>, artifact |-> <<artifact>>]

\* PDFAnnotator.create_annotated_pdf: the import of reportlab comes first; c.save()
\* writes the file
RichRender(name, errs, reportlab, writeFails) ==
    LET counting == FirstFault([i \in 1..Len(errs) |-> CountFault(errs[i])])
        detailing == FirstFault([i \in 1..Len(errs) |-> RichDetailFault(errs[i])])
    IN  IF ~reportlab THEN Raised(E_import)
        ELSE IF counting # <<>> THEN Raised(counting)
             ELSE IF detailing # <<>> THEN Raised(detailing)
                  ELSE IF writeFails THEN Raised(E_io)
                       ELSE Returned(Artifact("reportlab", name, errs))

\* SimpleTextAnnotator.create_annotated_pdf
TextRender(name, errs, writeFails) ==
    LET counting == FirstFault([i \in 1..Len(errs) |-> CountFault(errs[i])])
        detailing == FirstFault([i \in 1..Len(errs) |-> PageFault(errs[i])])
    IN  IF counting # <<>> THEN Raised(counting)
        ELSE IF detailing # <<>> THEN Raised(detailing)
             ELSE IF writeFails THEN Raised(E_io)
                  ELSE Returned(Artifact("text", name, errs))

\* the result of a renderer with the renderers that were run to get it
Ran(renderers, result) ==
    [ok |-> result.ok, desc |-> result.desc, artifact |-> result.artifact,
     ran |-> renderers]

\* mutant: the plain-text renderer run after any failure of the rich renderer
create_annotated_pdf_catching_all(name, errs, reportlab, writeFails) ==
    LET rich == RichRender(name, errs, reportlab, writeFails)
    IN  IF ~rich.ok
        THEN Ran(<<"reportlab", "text">>, TextRender(name, errs, writeFails))
        ELSE Ran(<<"reportlab">>, rich)

\* create_annotated_pdf: PDFAnnotator first, SimpleTextAnnotator on ImportError only
create_annotated_pdf(name, errs, reportlab, writeFails) ==
    LET rich == RichRender(name, errs, reportlab, writeFails)
    IN  IF ~rich.ok /\ rich.desc = E_import
        THEN Ran(<<"reportlab", "text">>, TextRender(name, errs, writeFails))
        ELSE Ran(<<"reportlab">>, rich)

-----------------------------------------------------------------------------
(* app.py: the Job Orchestrator.                                           *)
(* The event loop runs one coroutine at a time.  process_validation is an  *)
(* async function with no await in it, so once a background task starts it *)
(* holds the loop until it returns: requests are served only while no task *)
(* is running (cur = 0).  The statements of a task are separate steps so   *)
(* that its stages and progress messages can be stated.                    *)

MaxJobs ==
    2

JobIds ==
    1..MaxJobs

\* F_lower = 'a.pdf'
F_lower ==
    <<"a",".","p","d","f">>

\* F_upper = 'B.PDF'
F_upper ==
    <<"B",".","P","D","F">>

\* F_txt = 'a.txt'
F_txt ==
    <<"a",".","t","x","t">>

\* F_noext = 'pdf'
F_noext ==
    <<"p","d","f">>

\* F_inner = 'a.pdf.txt'
F_inner ==
    <<"a",".","p","d","f",".","t","x","t">>

Filenames ==
    {F_lower, F_upper, F_txt, F_noext, F_inner}

\* mutant: the extension tested without its dot
IsPdfNameNoDot(filename) ==
    EndsWith(Lower(filename), SubSeq(S_dot_pdf, 2, Len(S_dot_pdf)))

\* file.filename.lower().endswith('.pdf')
IsPdfName(filename) ==
    EndsWith(Lower(filename), S_dot_pdf)

\* a key the dict does not have
Absent ==
    <<>>

\* datetime.now()
Now ==
    "now"

\* mutant: an identifier that is not unique (the one drawn last is drawn again)
NewJobIdRepeated ==
    IF issued = 0 THEN 1 ELSE issued

\* str(uuid.uuid4()): a value not drawn before
NewJobId ==
    issued + 1

\* UPLOAD_DIR / f"{job_id}_{file.filename}"
UploadPath(job_id, filename) ==
    <<"uploads", job_id, "_", filename>>

\* f"{job_id}_annotated.pdf"
OutputFilename(job_id) ==
    <<job_id, "_annotated.pdf">>

\* mutant: one artifact path for every job
OutputPathShared(job_id) ==
    <<"output", "annotated.pdf">>

\* OUTPUT_DIR / output_filename
OutputPath(job_id) ==
    <<"output">> \o OutputFilename(job_id)

\* the dict stored at submission
NewRecord(filename, file_path) ==
    [status |-> "processing",
     progress |-> <<"File uploaded, starting validation...">>,
     filename |-> filename,
     file_path |-> file_path,
     started_at |-> <<Now>>,
     error_count |-> 0,
     errors |-> <<>>,
     output_path |-> Absent,
     download_url |-> Absent,
     completed_at |-> Absent,
     error |-> Absent]

\* mutant: the status written without the artifact path
CompletedUpdateNoPath(rec, job_id, errs, annotated_pdf_path) ==
    [rec EXCEPT !.status = "completed",
                !.progress = <<"Validation completed successfully">>,
                !.error_count = Len(errs),
                !.errors = errs,
                !.completed_at = <<Now>>]

\* validation_results[job_id].update({...}) on success
CompletedUpdate(rec, job_id, errs, annotated_pdf_path) ==
    [rec EXCEPT !.status = "completed",
                !.progress = <<"Validation completed successfully">>,
                !.error_count = Len(errs),
                !.errors = errs,
                !.output_path = <<annotated_pdf_path>>,
                !.download_url = <<<<"/download/">> \o OutputFilename(job_id)>>,
                !.completed_at = <<Now>>]

\* mutant: the failure recorded without the exception's description
FailedUpdateNoDesc(rec, desc) ==
    [rec EXCEPT !.status = "failed",
                !.progress = <<"Validation failed">>,
                !.error = <<desc>>,
                !.completed_at = <<Now>>]

\* validation_results[job_id].update({...}) in the except branch
FailedUpdate(rec, desc) ==
    [rec EXCEPT !.status = "failed",
                !.progress = <<"Validation failed: ">> \o desc,
                !.error = <<desc>>,
                !.completed_at = <<Now>>]

\* mutant: a table that holds the newest record only
StoreReplacingTable(job_id, rec) ==
    [j \in {job_id} |-> rec]

\* validation_results[job_id] = rec
Store(job_id, rec) ==
    [j \in DOMAIN validation_results \cup {job_id} |->
        IF j = job_id THEN rec ELSE validation_results[j]]

NoRequest ==
    [op |-> "none", arg |-> <<>>, code |-> 0, job |-> 0]

Request(op, arg, code, job) ==
    [op |-> op, arg |-> arg, code |-> code, job |-> job]

Init ==
    /\ validation_results = [j \in {} |-> NoRequest]
    /\ uploads = {}
    /\ outputs = [p \in {} |-> NoRequest]
    /\ scheduled = {}
    /\ cur = 0
    /\ pc = [j \in JobIds |-> "none"]
    /\ errors = [j \in JobIds |-> <<>>]
    /\ content = [j \in JobIds |-> <<>>]
    /\ pdf_text = [j \in JobIds |-> 0]
    /\ combined_text = [j \in JobIds |-> <<>>]
    /\ renders = [j \in JobIds |-> <<>>]
    /\ calls = [j \in JobIds |-> <<>>]
    /\ issued = 0
    /\ rendered = <<>>
    /\ env \in [reportlab : BOOLEAN, api_key : BOOLEAN]
    /\ extracted = <<>>
    /\ last = NoRequest

\* POST /validate, the filename does not end in .pdf: 400 before anything else
ValidateRejected(filename) ==
    /\ cur = 0
    /\ ~IsPdfName(filename)
    /\ last' = Request("validate", filename, 400, 0)
    /\ UNCHANGED <<validation_results, uploads, outputs, scheduled, cur, pc, errors,
                   content, pdf_text, combined_text, renders, calls, issued, rendered,
                   env, extracted>>

\* POST /validate, writing the upload raises: 500, no record, no task; the file
\* exists if open() succeeded and the write failed
ValidateSaveFailed(filename, opened) ==
    /\ cur = 0
    /\ IsPdfName(filename)
    /\ issued < MaxJobs
    /\ issued' = issued + 1
    /\ uploads' = IF opened THEN uploads \cup {UploadPath(NewJobId, filename)} ELSE uploads
    /\ last' = Request("validate", filename, 500, 0)
    /\ UNCHANGED <<validation_results, outputs, scheduled, cur, pc, errors, content,
                   pdf_text, combined_text, renders, calls, rendered, env, extracted>>

\* mutant: the pipeline started inside the request, before the response
ValidateAcceptedStarting(filename) ==
    /\ cur = 0
    /\ IsPdfName(filename)
    /\ issued < MaxJobs
    /\ issued' = issued + 1
    /\ uploads' = uploads \cup {UploadPath(NewJobId, filename)}
    /\ validation_results' =
          Store(NewJobId, [NewRecord(filename, UploadPath(NewJobId, filename))
                              EXCEPT !.progress = <<"Processing PDF...">>])
    /\ scheduled' = scheduled \cup {NewJobId}
    /\ cur' = NewJobId
    /\ pc' = [pc EXCEPT ![NewJobId] = "open"]
    /\ errors' = [errors EXCEPT ![NewJobId] = <<>>]
    /\ content' = [content EXCEPT ![NewJobId] = <<>>]
    /\ pdf_text' = [pdf_text EXCEPT ![NewJobId] = 0]
    /\ combined_text' = [combined_text EXCEPT ![NewJobId] = <<>>]
    /\ last' = Request("validate", filename, 200, NewJobId)
    /\ UNCHANGED <<outputs, renders, calls, rendered, env, extracted>>

\* POST /validate accepted: file saved, record stored, task added, job id returned
ValidateAccepted(filename) ==
    /\ cur = 0
    /\ IsPdfName(filename)
    /\ issued < MaxJobs
    /\ issued' = issued + 1
    /\ uploads' = uploads \cup {UploadPath(NewJobId, filename)}
    /\ validation_results' =
          Store(NewJobId, NewRecord(filename, UploadPath(NewJobId, filename)))
    /\ scheduled' = scheduled \cup {NewJobId}
    /\ pc' = [pc EXCEPT ![NewJobId] = "scheduled"]
    /\ errors' = [errors EXCEPT ![NewJobId] = <<>>]
    /\ content' = [content EXCEPT ![NewJobId] = <<>>]
    /\ pdf_text' = [pdf_text EXCEPT ![NewJobId] = 0]
    /\ combined_text' = [combined_text EXCEPT ![NewJobId] = <<>>]
    /\ last' = Request("validate", filename, 200, NewJobId)
    /\ UNCHANGED <<outputs, cur, renders, calls, rendered, env, extracted>>

\* mutant: the task ended by an exception that no except branch records
FailUnrecorded(j, desc) ==
    /\ pc' = [pc EXCEPT ![j] = "done"]
    /\ cur' = 0
    /\ UNCHANGED <<validation_results, errors, content, pdf_text, combined_text>>

\* the except branch of process_validation; the task returns
Fail(j, desc) ==
    /\ validation_results' = Store(j, FailedUpdate(validation_results[j], desc))
    /\ pc' = [pc EXCEPT ![j] = "done"]
    /\ errors' = [errors EXCEPT ![j] = <<>>]
    /\ content' = [content EXCEPT ![j] = <<>>]
    /\ pdf_text' = [pdf_text EXCEPT ![j] = 0]
    /\ combined_text' = [combined_text EXCEPT ![j] = <<>>]
    /\ cur' = 0

SetProgress(j, text) ==
    validation_results' =
        Store(j, [validation_results[j] EXCEPT !.progress = <<text>>])

\* the task of a job starts and runs its first statement (line 133)
TaskBegin(j) ==
    /\ cur = 0
    /\ j \in scheduled
    /\ scheduled' = scheduled \ {j}
    /\ cur' = j
    /\ SetProgress(j, "Processing PDF...")
    /\ pc' = [pc EXCEPT ![j] = "open"]
    /\ last' = NoRequest
    /\ UNCHANGED <<uploads, outputs, errors, content, pdf_text, combined_text, renders,
                   calls, issued, rendered, env, extracted>>

\* PDFProcessor(file_path): PdfReader raises on a file that is no PDF
OpenPdf(j, readable) ==
    /\ cur = j
    /\ pc[j] = "open"
    /\ IF readable
       THEN /\ pc' = [pc EXCEPT ![j] = "progress_ai"]
            /\ UNCHANGED <<validation_results, errors, content, pdf_text,
                           combined_text, cur>>
       ELSE Fail(j, E_pdf_read)
    /\ UNCHANGED <<uploads, outputs, scheduled, renders, calls, issued, rendered, env, extracted,
                   last>>

\* mutant: line 139 writing the report stage's message
ProgressAISkippingAhead(j) ==
    /\ cur = j
    /\ pc[j] = "progress_ai"
    /\ SetProgress(j, "Generating annotated PDF...")
    /\ pc' = [pc EXCEPT ![j] = "construct"]
    /\ UNCHANGED <<uploads, outputs, scheduled, cur, errors, content, pdf_text,
                   combined_text, renders, calls, issued, rendered, env, extracted, last>>

\* line 139
ProgressAI(j) ==
    /\ cur = j
    /\ pc[j] = "progress_ai"
    /\ SetProgress(j, "Running AI validation agent...")
    /\ pc' = [pc EXCEPT ![j] = "construct"]
    /\ UNCHANGED <<uploads, outputs, scheduled, cur, errors, content, pdf_text,
                   combined_text, renders, calls, issued, rendered, env, extracted, last>>

\* SimpleAIValidator(pdf_path): OpenAI(...) raises when no API key is configured
ConstructValidator(j) ==
    /\ cur = j
    /\ pc[j] = "construct"
    /\ IF env.api_key
       THEN /\ pc' = [pc EXCEPT ![j] = "call"]
            /\ UNCHANGED <<validation_results, errors, content, pdf_text,
                           combined_text, cur>>
       ELSE Fail(j, E_api_key)
    /\ UNCHANGED <<uploads, outputs, scheduled, renders, calls, issued, rendered, env, extracted,
                   last>>

\* validator.validate_with_ai(): one completion call, its outcome parsed or converted
CallModel(j, outcome, pdf_len) ==
    /\ cur = j
    /\ pc[j] = "call"
    /\ calls' = [calls EXCEPT ![j] = Append(@, IF outcome.ok THEN "returned" ELSE "raised")]
    /\ pdf_text' = [pdf_text EXCEPT ![j] = pdf_len]
    /\ combined_text' = [combined_text EXCEPT ![j] = SampleText(pdf_len)]
    /\ content' = [content EXCEPT ![j] = IF outcome.ok THEN outcome.text ELSE <<>>]
    /\ errors' = [errors EXCEPT ![j] = validate_with_ai(outcome)]
    /\ pc' = [pc EXCEPT ![j] = "progress_render"]
    /\ UNCHANGED <<validation_results, uploads, outputs, scheduled, cur, renders,
                   issued, rendered, env, extracted, last>>

\* line 146
ProgressRender(j) ==
    /\ cur = j
    /\ pc[j] = "progress_render"
    /\ SetProgress(j, "Generating annotated PDF...")
    /\ pc' = [pc EXCEPT ![j] = "render"]
    /\ UNCHANGED <<uploads, outputs, scheduled, cur, errors, content, pdf_text,
                   combined_text, renders, calls, issued, rendered, env, extracted, last>>

\* pdf_processor.generate_annotated_pdf(errors, output_path)
Render(j, writeFails) ==
    /\ cur = j
    /\ pc[j] = "render"
    /\ \E r \in {create_annotated_pdf(validation_results[j].file_path, errors[j],
                                      env.reportlab, writeFails)} :
          /\ IF r.ok
             THEN /\ outputs' = [p \in DOMAIN outputs \cup {OutputPath(j)} |->
                                   IF p = OutputPath(j) THEN r.artifact[1] ELSE outputs[p]]
                  /\ pc' = [pc EXCEPT ![j] = "complete"]
                  /\ UNCHANGED <<validation_results, errors, content, pdf_text,
                                 combined_text, cur>>
             ELSE /\ Fail(j, r.desc)
                  /\ UNCHANGED outputs
          /\ renders' = [renders EXCEPT ![j] = r.ran]
    /\ UNCHANGED <<uploads, scheduled, calls, issued, rendered, env, extracted, last>>

\* lines 155-163; the task returns
Complete(j) ==
    /\ cur = j
    /\ pc[j] = "complete"
    /\ validation_results' =
          Store(j, CompletedUpdate(validation_results[j], j, errors[j], OutputPath(j)))
    /\ pc' = [pc EXCEPT ![j] = "done"]
    /\ errors' = [errors EXCEPT ![j] = <<>>]
    /\ content' = [content EXCEPT ![j] = <<>>]
    /\ pdf_text' = [pdf_text EXCEPT ![j] = 0]
    /\ combined_text' = [combined_text EXCEPT ![j] = <<>>]
    /\ cur' = 0
    /\ UNCHANGED <<uploads, outputs, scheduled, renders, calls, issued, rendered, env, extracted,
                   last>>

\* GET /status/{job_id}: the response, a function of the job table
StatusResponse(job_id) ==
    IF job_id \notin DOMAIN validation_results
    THEN [code |-> 404, body |-> <<>>]
    ELSE [code |-> 200,
          body |-> <<[job_id |-> job_id,
                      status |-> validation_results[job_id].status,
                      progress |-> validation_results[job_id].progress,
                      error_count |-> validation_results[job_id].error_count,
                      completed_at |-> validation_results[job_id].completed_at]>>]

\* GET /result/{job_id}
ResultResponse(job_id) ==
    IF job_id \notin DOMAIN validation_results
    THEN [code |-> 404, body |-> <<>>]
    ELSE IF validation_results[job_id].status # "completed"
         THEN [code |-> 400, body |-> <<>>]
         ELSE [code |-> 200,
               body |-> <<[job_id |-> job_id,
                           filename |-> validation_results[job_id].filename,
                           status |-> validation_results[job_id].status,
                           error_count |-> validation_results[job_id].error_count,
                           errors |-> validation_results[job_id].errors,
                           download_url |-> validation_results[job_id].download_url[1],
                           completed_at |-> validation_results[job_id].completed_at[1]]>>]

\* mutant: the download handler without its test that the artifact file exists
DownloadResponseUnchecked(job_id) ==
    IF job_id \notin DOMAIN validation_results
    THEN [code |-> 404, body |-> <<>>]
    ELSE IF validation_results[job_id].status # "completed"
         THEN [code |-> 400, body |-> <<>>]
         ELSE [code |-> 200, body |-> <<validation_results[job_id].output_path>>]

\* GET /download-pdf/{job_id}
DownloadResponse(job_id) ==
    IF job_id \notin DOMAIN validation_results
    THEN [code |-> 404, body |-> <<>>]
    ELSE IF validation_results[job_id].status # "completed"
         THEN [code |-> 400, body |-> <<>>]
         ELSE IF \/ validation_results[job_id].output_path = Absent
                 \/ validation_results[job_id].output_path[1] \notin DOMAIN outputs
              THEN [code |-> 404, body |-> <<>>]
              ELSE [code |-> 200,
                    body |-> <<outputs[validation_results[job_id].output_path[1]]>>]

\* the three lookups are served while no task holds the loop and change nothing
GetStatus(job_id) ==
    /\ cur = 0
    /\ UNCHANGED vars

GetResult(job_id) ==
    /\ cur = 0
    /\ UNCHANGED vars

DownloadPdf(job_id) ==
    /\ cur = 0
    /\ UNCHANGED vars

Next ==
    \/ \E f \in Filenames : ValidateRejected(f)
    \/ \E f \in Filenames, opened \in BOOLEAN : ValidateSaveFailed(f, opened)
    \/ \E f \in Filenames : ValidateAccepted(f)
    \/ \E j \in JobIds : TaskBegin(j)
    \/ \E j \in JobIds, readable \in BOOLEAN : OpenPdf(j, readable)
    \/ \E j \in JobIds : ProgressAI(j)
    \/ \E j \in JobIds : ConstructValidator(j)
    \/ \E j \in JobIds, outcome \in CallOutcomes : CallModel(j, outcome, ShortTextLen)
    \/ \E j \in JobIds : ProgressRender(j)
    \/ \E j \in JobIds, writeFails \in BOOLEAN : Render(j, writeFails)
    \/ \E j \in JobIds : Complete(j)
    \/ \E j \in JobIds : GetStatus(j)
    \/ \E j \in JobIds : GetResult(j)
    \/ \E j \in JobIds : DownloadPdf(j)

Spec ==
    Init /\ [][Next]_vars

\* The normalizer on the whole response set: one job taken through its pipeline,
\* nothing failing but the completion call.
NextNormalizer ==
    \/ ValidateAccepted(F_lower)
    \/ TaskBegin(1)
    \/ OpenPdf(1, TRUE)
    \/ ProgressAI(1)
    \/ ConstructValidator(1)
    \/ \E outcome \in NormalizerOutcomes : CallModel(1, outcome, ShortTextLen)
    \/ ProgressRender(1)
    \/ Render(1, FALSE)
    \/ Complete(1)

InitNormalizer ==
    Init /\ env.api_key

SpecNormalizer ==
    InitNormalizer /\ [][NextNormalizer]_vars

\* The sampling of the document text: one job taken through its pipeline on every
\* text length.
NextSampler ==
    \/ ValidateAccepted(F_lower)
    \/ TaskBegin(1)
    \/ OpenPdf(1, TRUE)
    \/ ProgressAI(1)
    \/ ConstructValidator(1)
    \/ \E outcome \in CallOutcomes, n \in TextLengths : CallModel(1, outcome, n)
    \/ ProgressRender(1)
    \/ Render(1, FALSE)
    \/ Complete(1)

SpecSampler ==
    InitNormalizer /\ [][NextSampler]_vars

\* The renderers: one job taken through its pipeline on the responses that reach
\* every branch of the two renderers, with and without reportlab, the file written
\* or not.
NextRenderer ==
    \/ ValidateAccepted(F_lower)
    \/ TaskBegin(1)
    \/ OpenPdf(1, TRUE)
    \/ ProgressAI(1)
    \/ ConstructValidator(1)
    \/ \E outcome \in RenderOutcomes : CallModel(1, outcome, ShortTextLen)
    \/ ProgressRender(1)
    \/ \E writeFails \in BOOLEAN : Render(1, writeFails)
    \/ Complete(1)

SpecRenderer ==
    InitNormalizer /\ [][NextRenderer]_vars

\* "=" * 60
Repeat(ch, n) ==
    [i \in 1..n |-> ch]

T_title ==
    <<"F","D","V"," ","T","H","E","S","I","S"," ","V","A","L","I","D","A","T","I","O","N",
      " ","R","E","P","O","R","T">>

T_original ==
    <<"O","r","i","g","i","n","a","l"," ","f","i","l","e",":"," ">>

T_total ==
    <<"T","o","t","a","l"," ","e","r","r","o","r","s"," ","f","o","u","n","d",":"," ">>

T_summary ==
    <<"E","R","R","O","R"," ","S","U","M","M","A","R","Y",":">>

T_critical ==
    <<"C","r","i","t","i","c","a","l"," ","e","r","r","o","r","s",":"," ">>

T_major ==
    <<"M","a","j","o","r"," ","e","r","r","o","r","s",":"," ">>

T_minor ==
    <<"M","i","n","o","r"," ","e","r","r","o","r","s",":"," ">>

T_detailed ==
    <<"D","E","T","A","I","L","E","D"," ","E","R","R","O","R","S",":">>

T_page ==
    <<"."," ","P","a","g","e"," ">>

T_dash ==
    <<" ","-"," ">>

T_how ==
    <<"H","O","W"," ","T","O"," ","F","I","X",":">>

T_fix1 ==
    <<"1","."," ","A","d","d","r","e","s","s"," ","c","r","i","t","i","c","a","l"," ","e",
      "r","r","o","r","s"," ","f","i","r","s","t">>

T_fix2 ==
    <<"2","."," ","F","i","x"," ","m","a","j","o","r"," ","f","o","r","m","a","t","t","i",
      "n","g"," ","i","s","s","u","e","s">>

T_fix3 ==
    <<"3","."," ","C","o","n","s","i","d","e","r"," ","m","i","n","o","r"," ","i","m","p",
      "r","o","v","e","m","e","n","t","s">>

T_fix4 ==
    <<"4","."," ","R","e","-","v","a","l","i","d","a","t","e"," ","a","f","t","e","r"," ",
      "c","h","a","n","g","e","s">>

\* str(self.original_path.name): the job identifier, "_" and the uploaded file's name
NameText(name) ==
    IntToStr(name[2]) \o <<name[3]>> \o name[4]

RECURSIVE DetailLines(_, _)
\* the three lines of the findings from the i-th on: heading, message, blank
DetailLines(errs, i) ==
    IF i > Len(errs) THEN <<>>
    ELSE << IntToStr(i) \o T_page \o Format(JNum(PagePlusOne(errs[i]))) \o T_dash
               \o Format(SeverityOf(errs[i])),
            <<" ", " ", " ">> \o Format(MessageOf(errs[i])),
            <<>> >> \o DetailLines(errs, i + 1)

\* mutant: a report that numbers itself among the renders made so far
ReportLinesNumbered(name, errs) ==
    << T_title \o <<" ">> \o IntToStr(Len(rendered) + 1) >> \o DetailLines(errs, 1)

\* SimpleTextAnnotator.create_annotated_pdf: report_lines
ReportLines(name, errs) ==
    << Repeat("=", 60), T_title, Repeat("=", 60), <<>>,
       T_original \o NameText(name),
       T_total \o IntToStr(Len(errs)),
       <<>>,
       T_summary,
       T_critical \o IntToStr(ErrorCounts(errs)[S_CRITICAL]),
       T_major \o IntToStr(ErrorCounts(errs)[S_MAJOR]),
       T_minor \o IntToStr(ErrorCounts(errs)[S_MINOR]),
       <<>>,
       T_detailed, Repeat("-", 40) >>
    \o DetailLines(errs, 1)
    \o << T_how, T_fix1, T_fix2, T_fix3, T_fix4 >>

\* f.write('\n'.join(report_lines)): the characters of the file
ReportText(name, errs) ==
    JoinWith(ReportLines(name, errs), <<"\n">>)

\* the environment: a file of the outputs directory is deleted
RemoveOutput(p) ==
    /\ p \in DOMAIN outputs
    /\ outputs' = [q \in DOMAIN outputs \ {p} |-> outputs[q]]
    /\ UNCHANGED <<validation_results, uploads, scheduled, cur, pc, errors, content,
                   pdf_text, combined_text, renders, calls, issued, rendered, env, extracted, last>>

\* The lookups: jobs that complete or fail at the first stage, artifact files that
\* may be deleted, and the three GET handlers.
NextLookup ==
    \/ ValidateAccepted(F_lower)
    \/ \E j \in JobIds : TaskBegin(j)
    \/ \E j \in JobIds, readable \in BOOLEAN : OpenPdf(j, readable)
    \/ \E j \in JobIds : ProgressAI(j)
    \/ \E j \in JobIds : ConstructValidator(j)
    \/ \E j \in JobIds : CallModel(j, [ok |-> TRUE, text |-> R_json_two], ShortTextLen)
    \/ \E j \in JobIds : ProgressRender(j)
    \/ \E j \in JobIds : Render(j, FALSE)
    \/ \E j \in JobIds : Complete(j)
    \/ \E j \in JobIds : RemoveOutput(OutputPath(j))
    \/ \E j \in JobIds : GetStatus(j)
    \/ \E j \in JobIds : GetResult(j)
    \/ \E j \in JobIds : DownloadPdf(j)

SpecLookup ==
    Init /\ [][NextLookup]_vars

\* The invocation modes of the Judgment Engine.  validate_section and
\* validate_overall_structure are methods that no code of the repository calls; here a
\* caller holding a constructed validator calls each method, and validate_with_ai, on
\* every outcome of the completion call.  pc[1] is the mode last called, content[1]
\* the response, errors[1] the list returned.
MaxRecords ==
    9

\* lists of n records for every n up to MaxRecords
RecordLists ==
    {[i \in 1..n |-> Finding(i, S_MAJOR, M_quotes, S_analysis)] : n \in 0..MaxRecords}

ModeOutcomes ==
    [ok : {TRUE}, text : BracketResponses \cup SampleLines \cup
                         {JsonDumps(records) : records \in RecordLists}]
        \cup [ok : {FALSE}, text : CallFailures]

\* what a call of one of the three methods leaves behind
ModeCalled(mode, outcome, returned) ==
    /\ pc' = [pc EXCEPT ![1] = mode]
    /\ calls' = [calls EXCEPT ![1] = <<IF outcome.ok THEN "returned" ELSE "raised">>]
    /\ content' = [content EXCEPT ![1] = IF outcome.ok THEN outcome.text ELSE <<>>]
    /\ errors' = [errors EXCEPT ![1] = returned]
    /\ UNCHANGED <<validation_results, uploads, outputs, scheduled, cur, pdf_text,
                   combined_text, renders, issued, rendered, env, extracted, last>>

CallSinglePass(outcome) ==
    ModeCalled("single_pass", outcome, validate_with_ai(outcome))

CallSection(section_type, outcome) ==
    ModeCalled(section_type, outcome, validate_section(section_type, outcome))

CallStructure(outcome) ==
    ModeCalled("structure", outcome, validate_overall_structure(outcome))

NextModes ==
    \/ \E outcome \in ModeOutcomes : CallSinglePass(outcome)
    \/ \E section_type \in SectionTypes, outcome \in ModeOutcomes :
          CallSection(section_type, outcome)
    \/ \E outcome \in ModeOutcomes : CallStructure(outcome)

SpecModes ==
    InitNormalizer /\ [][NextModes]_vars

\* The text extraction: a caller holding a validator, or a processor, for a document
\* asks for its full text or for the text of one of its pages.  The functions keep
\* nothing between calls, so one call is taken per behaviour.
ExtractFullText(doc) ==
    /\ extracted = <<>>
    /\ extracted' = <<[op |-> "extract_pdf_text", doc |-> doc, page_num |-> 0,
                       text |-> extract_pdf_text(doc)]>>
    /\ UNCHANGED <<validation_results, uploads, outputs, scheduled, cur, pc, errors,
                   content, pdf_text, combined_text, renders, calls, issued, rendered,
                   env, last>>

\* UltraSimplePDFProcessor(file_path) raises on an unreadable document, so a processor
\* exists for readable ones only
ExtractPageText(doc, page_num) ==
    /\ extracted = <<>>
    /\ doc.readable
    /\ extracted' = <<[op |-> "extract_text_from_page", doc |-> doc, page_num |-> page_num,
                       text |-> extract_text_from_page(doc, page_num)]>>
    /\ UNCHANGED <<validation_results, uploads, outputs, scheduled, cur, pc, errors,
                   content, pdf_text, combined_text, renders, calls, issued, rendered,
                   env, last>>

NextExtractor ==
    \/ \E doc \in Documents : ExtractFullText(doc)
    \/ \E doc \in Documents, page_num \in 0..MaxPages : ExtractPageText(doc, page_num)

SpecExtractor ==
    InitNormalizer /\ [][NextExtractor]_vars

\* the outcomes of the call in the termination runs: an answer without findings, and
\* each failure of the call
LiveOutcomes ==
    [ok : {TRUE}, text : {L_fine}] \cup [ok : {FALSE}, text : CallFailures]

\* the statements of the background task of job j
Pipeline(j) ==
    \/ TaskBegin(j)
    \/ \E readable \in BOOLEAN : OpenPdf(j, readable)
    \/ ProgressAI(j)
    \/ ConstructValidator(j)
    \/ \E outcome \in LiveOutcomes : CallModel(j, outcome, ShortTextLen)
    \/ ProgressRender(j)
    \/ \E writeFails \in BOOLEAN : Render(j, writeFails)
    \/ Complete(j)

\* Termination: uploads are accepted and polled, and the event loop runs every task
\* it has been given; each statement of a task returns or raises.
NextLive ==
    \/ \E f \in {F_lower, F_inner} : ValidateRejected(f)
    \/ ValidateAccepted(F_lower)
    \/ \E j \in JobIds : Pipeline(j)
    \/ \E j \in JobIds : GetStatus(j)

SpecLive ==
    Init /\ [][NextLive]_vars /\ \A j \in JobIds : WF_vars(Pipeline(j))

MaxRenders ==
    2

\* the finding lists the plain-text renderer is asked to render directly
RenderLists ==
    {<<>>,
     <<Finding(0, S_CRITICAL, M_brackets, S_formatting)>>,
     <<Finding(0, S_CRITICAL, M_brackets, S_formatting), Finding(12, S_MAJOR, M_quotes, S_analysis)>>,
     <<Finding(12, S_MAJOR, M_quotes, S_analysis), Finding(0, S_CRITICAL, M_brackets, S_formatting)>>}

\* SimpleTextAnnotator(original_pdf_path).create_annotated_pdf(errs, OutputPath(j)):
\* the file is written, and the characters written are noted next to the inputs
RenderText(name, errs, j) ==
    /\ Len(rendered) < MaxRenders
    /\ LET r == TextRender(name, errs, FALSE)
       IN  /\ r.ok
           /\ outputs' = [p \in DOMAIN outputs \cup {OutputPath(j)} |->
                            IF p = OutputPath(j) THEN r.artifact[1] ELSE outputs[p]]
           /\ rendered' = Append(rendered, [name |-> name, errs |-> errs,
                                            path |-> OutputPath(j),
                                            written |-> ReportText(name, errs)])
    /\ UNCHANGED <<validation_results, uploads, scheduled, cur, pc, errors, content,
                   pdf_text, combined_text, renders, calls, issued, env, extracted, last>>

\* The plain-text renderer alone, on source files and finding lists of its own.
NextTextRenderer ==
    \E name \in {UploadPath(1, F_lower), UploadPath(2, F_upper)},
       errs \in RenderLists, j \in {1, 2} : RenderText(name, errs, j)

SpecTextRenderer ==
    Init /\ [][NextTextRenderer]_vars

-----------------------------------------------------------------------------
(* Properties.                                                             *)

Terminal ==
    {"completed", "failed"}

Jobs ==
    DOMAIN validation_results

\* the statements of process_validation in program order
Stages ==
    <<"scheduled", "open", "progress_ai", "construct", "call", "progress_render",
      "render", "complete", "done">>

StageIndex(s) ==
    CHOOSE i \in 1..Len(Stages) : Stages[i] = s

\* position of a status in queued/running -> completed|failed; the code stores
\* "processing" for a job that is queued or running
StatusRank(status) ==
    IF status \in Terminal THEN 2 ELSE 1

\* C1: a job's stored status only moves forward, processing (queued, then running)
\* -> completed | failed: a record is created as processing, is never removed, never
\* goes back to an earlier status, and a completed or failed status never changes.
C1_StatusOnlyMovesForward ==
    [][\A j \in JobIds :
          /\ j \in Jobs =>
                /\ j \in DOMAIN validation_results'
                /\ StatusRank(validation_results'[j].status)
                      >= StatusRank(validation_results[j].status)
                /\ validation_results[j].status \in Terminal =>
                      validation_results'[j].status = validation_results[j].status
          /\ (j \notin Jobs /\ j \in DOMAIN validation_results') =>
                validation_results'[j].status = "processing"]_vars

\* C1 witness: one job has completed and another has failed
C1_Witness ==
    \E j, k \in Jobs :
        /\ validation_results[j].status = "completed"
        /\ validation_results[k].status = "failed"

\* C2: a completed job has its findings, error count, artifact path, download link
\* and completed_at all set, and a job that is not completed has no findings and no
\* artifact path, in every state and so in every state a lookup can observe; what
\* /status and /result answer for a completed job carries the complete update.
C2_CompletionIsAllOrNothing ==
    \A j \in Jobs :
        LET rec == validation_results[j]
        IN  /\ rec.status = "completed" =>
                  /\ rec.error_count = Len(rec.errors)
                  /\ rec.output_path = <<OutputPath(j)>>
                  /\ rec.download_url # Absent
                  /\ rec.completed_at # Absent
                  /\ OutputPath(j) \in DOMAIN outputs
                  /\ outputs[OutputPath(j)].total = Len(rec.errors)
            /\ rec.status # "completed" =>
                  /\ rec.errors = <<>>
                  /\ rec.error_count = 0
                  /\ rec.output_path = Absent
            /\ (cur = 0 /\ StatusResponse(j).body[1].status = "completed") =>
                  /\ StatusResponse(j).body[1].completed_at # Absent
                  /\ ResultResponse(j).code = 200
                  /\ ResultResponse(j).body[1].errors = rec.errors
                  /\ ResultResponse(j).body[1].error_count = Len(rec.errors)
                  /\ DownloadResponse(j).code = 200

\* C2 witness: a lookup can see a completed job with findings while another job is
\* still processing
C2_Witness ==
    /\ cur = 0
    /\ \E j, k \in Jobs :
          /\ validation_results[j].status = "completed"
          /\ validation_results[j].errors # <<>>
          /\ validation_results[k].status = "processing"

\* the filename does not end in ".pdf", letter case aside
LacksPdfExtension(filename) ==
    \/ Len(filename) < 4
    \/ \E k \in 1..4 :
          LowerChar(filename[Len(filename) - 4 + k]) # <<".", "p", "d", "f">>[k]

\* C3: a POST /validate whose filename lacks the .pdf extension (case-insensitively)
\* is answered 400 and returns no job id, and serving it adds no record, writes no
\* upload, draws no identifier and schedules no task.
C3_RejectedBeforeAnyJob ==
    [][(last' # last /\ last'.op = "validate" /\ LacksPdfExtension(last'.arg)) =>
          /\ last'.code = 400
          /\ last'.job = 0
          /\ UNCHANGED <<validation_results, uploads, outputs, scheduled, issued, pc>>]_vars

\* C3 witness: an upload named a.pdf.txt was rejected while the table holds a job
C3_Witness ==
    /\ last = Request("validate", F_inner, 400, 0)
    /\ Jobs # {}

\* str(e) of what each stage can raise
StageExceptions(stage) ==
    CASE stage = "open" -> {E_pdf_read}
      [] stage = "construct" -> {E_api_key}
      [] stage = "render" -> {E_no_get, E_unhashable, E_page_add, E_no_split, E_io}
      [] OTHER -> {}

\* C4: every step of a job's pipeline either moves to the next statement or, when
\* the stage raises, takes the job at once from processing to failed, with
\* "Validation failed: " and the exception's description as its progress message;
\* no statement is run again, and the failed job keeps an empty findings list, a
\* zero error count and no artifact path, whatever findings had been computed.
C4_StageFailureFailsJob ==
    [][\A j \in Jobs :
          pc'[j] # pc[j] =>
             \/ /\ StageIndex(pc'[j]) = StageIndex(pc[j]) + 1
                /\ validation_results'[j].status =
                      (IF pc'[j] = "done" THEN "completed" ELSE "processing")
             \/ /\ pc'[j] = "done"
                /\ validation_results[j].status = "processing"
                /\ validation_results'[j].status = "failed"
                /\ validation_results'[j].error # Absent
                /\ validation_results'[j].error[1] \in StageExceptions(pc[j])
                /\ validation_results'[j].progress =
                      <<"Validation failed: ">> \o validation_results'[j].error[1]
                /\ validation_results'[j].errors = <<>>
                /\ validation_results'[j].error_count = 0
                /\ validation_results'[j].output_path = Absent
                /\ calls'[j] = calls[j]]_vars

\* C4 witness: rendering raised on findings the call had returned, and the failed
\* job exposes none of them
C4_Witness ==
    \E j \in Jobs :
        /\ validation_results[j].status = "failed"
        /\ validation_results[j].error = <<E_no_get>>
        /\ calls[j] = <<"returned">>
        /\ validation_results[j].errors = <<>>

\* exactly one finding, CRITICAL, whose message embeds the description of a failed call
IsCallFailureFindings(errs) ==
    /\ Len(errs) = 1
    /\ errs[1].t = "dict"
    /\ SeverityOf(errs[1]) = JStr(S_CRITICAL)
    /\ \E desc \in CallFailures :
          /\ MessageOf(errs[1]).t = "str"
          /\ Contains(MessageOf(errs[1]).v, desc)

\* C5 as stated: a job whose completion call failed made one call, and ends completed
\* with exactly one CRITICAL finding embedding the failure description.
C5_FailedCallJobCompletes ==
    \A j \in Jobs :
        ("raised" \in {calls[j][i] : i \in 1..Len(calls[j])} /\ pc[j] = "done") =>
            /\ calls[j] = <<"raised">>
            /\ validation_results[j].status = "completed"
            /\ IsCallFailureFindings(validation_results[j].errors)

\* C5 amended: a job whose completion call failed made one call; its findings are
\* exactly one CRITICAL finding embedding the failure description; it ends
\* completed with those findings unless writing the report raises, and then it
\* ends failed with that exception's description and no findings.
C5_FailedCallJobCompletesUnlessRenderRaises ==
    \A j \in Jobs :
        "raised" \in {calls[j][i] : i \in 1..Len(calls[j])} =>
            /\ calls[j] = <<"raised">>
            /\ pc[j] \in {"progress_render", "render", "complete", "done"}
            /\ pc[j] # "done" =>
                  /\ IsCallFailureFindings(errors[j])
                  /\ validation_results[j].status = "processing"
            /\ pc[j] = "done" =>
                  \/ /\ validation_results[j].status = "completed"
                     /\ IsCallFailureFindings(validation_results[j].errors)
                  \/ /\ validation_results[j].status = "failed"
                     /\ validation_results[j].error = <<E_io>>
                     /\ validation_results[j].errors = <<>>

\* C5 witness: a job whose call failed has completed
C5_Witness ==
    \E j \in Jobs :
        /\ calls[j] = <<"raised">>
        /\ validation_results[j].status = "completed"

C7_ResponseFormatNeverFailsJob ==
    \A j \in Jobs :
        (calls[j] = <<"returned">> /\ validation_results[j].status = "failed") =>
            validation_results[j].error = <<E_io>>

KnownSeverities ==
    {JStr(S_CRITICAL), JStr(S_MAJOR), JStr(S_MINOR)}

\* C8: every finding stored in a job is a record whose severity is CRITICAL, MAJOR
\* or MINOR.
C8_StoredSeverityIsKnown ==
    \A j \in Jobs :
        \A i \in 1..Len(validation_results[j].errors) :
            /\ validation_results[j].errors[i].t = "dict"
            /\ HasKey(validation_results[j].errors[i], K_severity)
            /\ SeverityOf(validation_results[j].errors[i]) \in KnownSeverities

\* the response has a bracketed region that decodes
StructuredTierDecodes(response) ==
    HasBracketRegion(response) /\ JsonLoads(BracketRegion(response)).ok

\* the job has its findings from the normalizer
HasNormalized(j) ==
    /\ j \in Jobs
    /\ calls[j] = <<"returned">>
    /\ pc[j] \in {"progress_render", "render", "complete"}

\* C9: when the structured tier decodes the bracketed region, every record of the
\* decoded list becomes a finding with a page number (0 if the model gave none), a
\* category ("formatting" if the model gave none) and a non-empty message.
C9_StructuredRecordsCoerced ==
    \A j \in JobIds :
        (HasNormalized(j) /\ StructuredTierDecodes(content[j])) =>
            \A i \in 1..Len(errors[j]) :
                LET decoded == JsonLoads(BracketRegion(content[j])).val.v[i]
                IN  decoded.t = "dict" =>
                       /\ errors[j][i].t = "dict"
                       /\ HasKey(errors[j][i], K_page_num)
                       /\ ~HasKey(decoded, K_page_num) => PageOf(errors[j][i]) = JNum(0)
                       /\ HasKey(errors[j][i], K_error_type)
                       /\ ~HasKey(decoded, K_error_type) =>
                             DictGet(errors[j][i], K_error_type, JNull) = JStr(S_formatting)
                       /\ HasKey(errors[j][i], K_message)
                       /\ MessageOf(errors[j][i]).t = "str"
                       /\ MessageOf(errors[j][i]).v # <<>>

\* the response has no bracketed list, one of its lines is
\* "MUST be UNIVERZA V LJUBLJANI" and no other line holds a trigger word
OnlyMustLine(response) ==
    /\ PyFind(response, "[") = -1
    /\ PyFind(response, "]") = -1
    /\ \E i \in 1..Len(SplitLines(response)) :
          /\ SplitLines(response)[i] = L_must
          /\ \A k \in 1..Len(SplitLines(response)) :
                k # i => ~IsTriggerLine(SplitLines(response)[k])

\* C10: from a response with no bracketed list whose only line of note is
\* "MUST be UNIVERZA V LJUBLJANI", the heuristic tier makes exactly one finding,
\* and its severity is CRITICAL.
C10_MustLineIsOneCriticalFinding ==
    \A j \in JobIds :
        (HasNormalized(j) /\ OnlyMustLine(content[j])) =>
            /\ Len(errors[j]) = 1
            /\ SeverityOf(errors[j][1]) = JStr(S_CRITICAL)

\* no line of the response holds a trigger word
NoTriggerLine(response) ==
    \E lines \in {SplitLines(response)} :
        \A i \in 1..Len(lines) : ~IsTriggerLine(Strip(lines[i]))

HasSampled(j) ==
    /\ j \in Jobs
    /\ Len(calls[j]) = 1
    /\ pc[j] \in {"progress_render", "render", "complete"}

\* positions [a, b) of the extracted text
Segment(a, b) ==
    [kind |-> "chars", from |-> a, to |-> b, text |-> ""]

\* the pieces of the text that are slices of the document, in order
SegmentsOf(pieces) ==
    SelectSeq(pieces, LAMBDA p : p.kind = "chars")

\* C12: for an extracted text of more than 20,000 characters the text sent is the
\* first 10,000 characters, the 5,000 characters centred at the midpoint and the
\* last 5,000 characters, in this order, each of the three preceded by a label.
C12_LongTextIsThreeLabelledSegments ==
    \A j \in JobIds :
        (HasSampled(j) /\ pdf_text[j] > 20000) =>
            /\ SegmentsOf(combined_text[j]) =
                  << Segment(0, 10000),
                     Segment(pdf_text[j] \div 2 - 2500, pdf_text[j] \div 2 + 2500),
                     Segment(pdf_text[j] - 5000, pdf_text[j]) >>
            /\ \A i \in 1..Len(combined_text[j]) :
                  combined_text[j][i].kind = "chars" =>
                     /\ i > 1
                     /\ combined_text[j][i - 1].kind = "literal"

\* C13: for an extracted text of at most 20,000 characters the text sent is the
\* whole text, as one piece, with no label.
C13_ShortTextIsSentWhole ==
    \A j \in JobIds :
        (HasSampled(j) /\ pdf_text[j] <= 20000) =>
            combined_text[j] = << Segment(0, pdf_text[j]) >>

\* C13 witness: a text of exactly 20,000 characters has been sent
C13_Witness ==
    \E j \in JobIds :
        /\ HasSampled(j)
        /\ pdf_text[j] = 20000
        /\ Len(combined_text[j]) = 1

\* C14: a finding list written as a JSON array and parsed by the structured tier
\* comes back with the same length and, position by position, the same
\* severities and messages; so does the empty list.
C14_SerializedListRoundTrips ==
    \A j \in JobIds :
        HasNormalized(j) =>
            \A sl \in SerializedLists :
                content[j] = sl.text =>
                    /\ StructuredTierDecodes(content[j])
                    /\ Len(errors[j]) = Len(sl.findings)
                    /\ \A i \in 1..Len(sl.findings) :
                          /\ SeverityOf(errors[j][i]) = SeverityOf(sl.findings[i])
                          /\ MessageOf(errors[j][i]) = MessageOf(sl.findings[i])

\* C14 witness: the serialization of two findings, whose messages hold quotation
\* marks, brackets and a backslash, has been parsed
C14_Witness ==
    \E j \in JobIds :
        /\ HasNormalized(j)
        /\ content[j] = JsonDumps(<<Finding(12, S_MAJOR, M_quotes, S_analysis),
                                    Finding(3, S_MINOR, M_reversed, S_formatting)>>)
        /\ Len(errors[j]) = 2

\* str(e) of what a renderer can raise once it runs
RendererFaults(renderer) ==
    IF renderer = "text"
    THEN {E_no_get, E_unhashable, E_page_add, E_io}
    ELSE {E_no_get, E_unhashable, E_page_add, E_no_split, E_io}

RECURSIVE WordsOf(_)
\* the words of a sequence of lines, in reading order
WordsOf(lines) ==
    IF lines = <<>> THEN <<>> ELSE Split(Head(lines)) \o WordsOf(Tail(lines))

\* two listings name the same findings in the same order: number, page, severity and
\* the words of the message
SameListing(a, b) ==
    /\ Len(a) = Len(b)
    /\ \A i \in 1..Len(a) :
          /\ a[i].number = b[i].number
          /\ a[i].page = b[i].page
          /\ a[i].severity = b[i].severity
          /\ WordsOf(a[i].lines) = WordsOf(b[i].lines)

\* C16: without reportlab the artifact of a completed job is the plain-text report; its
\* CRITICAL, MAJOR and MINOR counts are the numbers of findings of that severity in the
\* job's finding list, and it lists the findings (number, page, severity, message) as
\* the rich renderer would for the same list.
C16_TextArtifactListsWhatRichWould ==
    \A j \in Jobs :
        (~env.reportlab /\ validation_results[j].status = "completed") =>
            LET errs == validation_results[j].errors
                text == outputs[OutputPath(j)]
                rich == RichRender(validation_results[j].file_path, errs, TRUE, FALSE)
            IN  /\ text.renderer = "text"
                /\ text.total = Len(errs)
                /\ \A s \in {S_CRITICAL, S_MAJOR, S_MINOR} :
                      text.counts[s] =
                         Cardinality({i \in 1..Len(errs) :
                                         /\ HasKey(errs[i], K_severity)
                                         /\ DictGet(errs[i], K_severity, JNull) = JStr(s)})
                /\ rich.ok
                /\ SameListing(text.details, rich.artifact[1].details)


C18_LookupsFollowTheJobTable ==
    \A id \in JobIds :
        /\ id \notin Jobs =>
              /\ StatusResponse(id).code = 404
              /\ ResultResponse(id).code = 404
              /\ DownloadResponse(id).code = 404
        /\ (id \in Jobs /\ validation_results[id].status # "completed") =>
              /\ StatusResponse(id).code = 200
              /\ ResultResponse(id) = [code |-> 400, body |-> <<>>]
              /\ DownloadResponse(id) = [code |-> 400, body |-> <<>>]
        /\ (id \in Jobs /\ validation_results[id].status = "completed") =>
              /\ StatusResponse(id).code = 200
              /\ ResultResponse(id).code = 200
              /\ ResultResponse(id).body[1].errors = validation_results[id].errors
              /\ ResultResponse(id).body[1].error_count = Len(validation_results[id].errors)
              /\ ResultResponse(id).body[1].download_url = validation_results[id].download_url[1]
              /\ DownloadResponse(id).code \in {200, 404}
              /\ DownloadResponse(id).code = 404 <=> OutputPath(id) \notin DOMAIN outputs
              /\ DownloadResponse(id).code = 200 =>
                    DownloadResponse(id).body = <<outputs[OutputPath(id)]>>

\* C18 witness: at once, a completed job whose artifact file is gone (404 from
\* /download-pdf, 200 from /result) and a failed job (400 from both)
C18_Witness ==
    \E a \in Jobs, b \in Jobs :
        /\ validation_results[a].status = "completed"
        /\ validation_results[a].errors # <<>>
        /\ OutputPath(a) \notin DOMAIN outputs
        /\ DownloadResponse(a).code = 404
        /\ ResultResponse(a).code = 200
        /\ validation_results[b].status = "failed"
        /\ ResultResponse(b).code = 400
        /\ DownloadResponse(b).code = 400


\* C19: a job that GET /status finds is found after every step, whatever the step does
\* and whichever job it is about, and the job identifier POST /validate has returned
\* is found: no record is ever removed from the table.
C19_IssuedJobIsAlwaysFound ==
    [][/\ \A j \in JobIds :
             StatusResponse(j).code = 200 => StatusResponse(j)'.code = 200
       /\ \A j \in JobIds :
             (last'.op = "validate" /\ last'.code = 200 /\ last'.job = j) =>
                 StatusResponse(j)'.code = 200]_vars

\* C19 witness: the first job has finished and a second one has been accepted since;
\* both are found
C19_Witness ==
    /\ last = Request("validate", last.arg, 200, 2)
    /\ pc[1] = "done"
    /\ StatusResponse(1).code = 200
    /\ StatusResponse(2).code = 200


\* C20: the step that answers POST /validate with 200 and a job identifier has saved
\* the upload and stored the job's record, with status "processing", and leaves the
\* job's task scheduled, none of its statements run and the event loop free; and a
\* task takes its first step only for a job that has a record and was scheduled.
C20_ValidateReturnsBeforePipeline ==
    [][/\ \A j \in JobIds :
             (last' # last /\ last'.op = "validate" /\ last'.code = 200 /\ last'.job = j) =>
                 /\ UploadPath(j, last'.arg) \in uploads'
                 /\ j \in DOMAIN validation_results'
                 /\ validation_results'[j] = NewRecord(last'.arg, UploadPath(j, last'.arg))
                 /\ validation_results'[j].status = "processing"
                 /\ pc[j] = "none"
                 /\ pc'[j] = "scheduled"
                 /\ j \in scheduled'
                 /\ cur' = 0
                 /\ calls'[j] = <<>>
                 /\ renders'[j] = <<>>
       /\ \A j \in JobIds :
             (pc[j] \in {"none", "scheduled"} /\ pc'[j] \notin {"none", "scheduled"}) =>
                 /\ j \in Jobs
                 /\ j \in scheduled
                 /\ pc[j] = "scheduled"]_vars

\* C20 witness: two uploads have been accepted and answered, and neither job's task
\* has started
C20_Witness ==
    /\ last = Request("validate", last.arg, 200, 2)
    /\ pc[1] = "scheduled"
    /\ pc[2] = "scheduled"
    /\ cur = 0
    /\ \A j \in {1, 2} : validation_results[j].status = "processing"
    /\ UploadPath(2, last.arg) \in uploads


\* C21: while a job's task is at the completion call, the event loop is free: a status
\* request for any job can be served before the call returns, and it finds the job
\* processing with the judgment-stage progress message.
C21_StatusServedDuringCall ==
    \A j \in Jobs :
        pc[j] = "call" =>
            /\ \A k \in JobIds : ENABLED GetStatus(k)
            /\ StatusResponse(j).body[1].status = "processing"
            /\ StatusResponse(j).body[1].progress = <<"Running AI validation agent...">>


\* C22: every job that has a record eventually has status completed or failed,
\* whatever its stages do: the upload unreadable, the API key missing, the completion
\* call failing, the report unwritable.
C22_EveryJobTerminates ==
    \A j \in JobIds :
        (j \in Jobs) ~> (j \in Jobs /\ validation_results[j].status \in {"completed", "failed"})

\* C22 witness: without an API key, one job has failed at the construction of the
\* validator and another is still waiting for its task to start
C22_Witness ==
    \E j \in Jobs, k \in Jobs :
        /\ ~env.api_key
        /\ validation_results[j].status = "failed"
        /\ validation_results[j].error = <<E_api_key>>
        /\ pc[k] = "scheduled"


\* the severities of a listing, in the order listed: no MAJOR or MINOR entry stands
\* before a CRITICAL one
CriticalFirst(severities) ==
    \A i, k \in 1..Len(severities) :
        (i < k /\ severities[k] = S_CRITICAL) => severities[i] \notin {S_MAJOR, S_MINOR}

\* C23: in the findings list returned by GET /result and in the per-finding detail
\* listing of the rendered report, every CRITICAL finding appears before every MAJOR
\* and every MINOR finding, whatever order the model returned them in.
C23_CriticalListedFirst ==
    \A j \in Jobs :
        /\ ResultResponse(j).code = 200 =>
              CriticalFirst([i \in 1..Len(ResultResponse(j).body[1].errors) |->
                                Format(SeverityOf(ResultResponse(j).body[1].errors[i]))])
        /\ OutputPath(j) \in DOMAIN outputs =>
              CriticalFirst([i \in 1..Len(outputs[OutputPath(j)].details) |->
                                outputs[OutputPath(j)].details[i].severity])


\* the progress messages of a job that has not ended, in the order the code writes
\* them (app.py:113, 133, 139, 146)
ProgressChain ==
    <<"File uploaded, starting validation...", "Processing PDF...",
      "Running AI validation agent...", "Generating annotated PDF...">>

ChainIndex(progress) ==
    CHOOSE i \in 1..Len(ProgressChain) : progress = <<ProgressChain[i]>>

\* the message a job shows while the statement at pc is the next one to run
ProgressAt(stage) ==
    CASE stage = "scheduled" -> <<ProgressChain[1]>>
      [] stage \in {"open", "progress_ai"} -> <<ProgressChain[2]>>
      [] stage \in {"construct", "call", "progress_render"} -> <<ProgressChain[3]>>
      [] stage \in {"render", "complete"} -> <<ProgressChain[4]>>

\* C24: within one job the statements run in program order, one at a time, each after
\* the previous one has returned; the document is opened under "Processing PDF...",
\* the judgment call and the normalization run under "Running AI validation
\* agent...", the rendering under "Generating annotated PDF..."; the progress
\* messages of a job are a prefix of (uploaded, processing PDF, running AI validation,
\* generating report) followed by exactly one terminal message, completed after the
\* whole chain or failed after any message but the first, and never changed after.
C24_StagesAndProgressInOrder ==
    [][\A j \in JobIds :
          /\ (j \notin Jobs /\ j \in DOMAIN validation_results') =>
                /\ validation_results'[j].progress = <<ProgressChain[1]>>
                /\ pc'[j] = "scheduled"
          /\ j \in Jobs =>
                LET old == validation_results[j].progress
                    new == validation_results'[j].progress
                IN  /\ pc[j] # "done" => old = ProgressAt(pc[j])
                    /\ pc'[j] # pc[j] =>
                          \/ StageIndex(pc'[j]) = StageIndex(pc[j]) + 1
                          \/ /\ pc'[j] = "done"
                             /\ pc[j] \in {"open", "construct", "render"}
                             /\ new[1] = "Validation failed: "
                    /\ new # old =>
                          /\ pc'[j] # pc[j]
                          /\ \E i \in 1..Len(ProgressChain) : old = <<ProgressChain[i]>>
                          /\ \/ /\ ChainIndex(old) < Len(ProgressChain)
                                /\ new = <<ProgressChain[ChainIndex(old) + 1]>>
                                /\ validation_results'[j].status = "processing"
                             \/ /\ ChainIndex(old) = Len(ProgressChain)
                                /\ new = <<"Validation completed successfully">>
                                /\ validation_results'[j].status = "completed"
                             \/ /\ ChainIndex(old) > 1
                                /\ new[1] = "Validation failed: "
                                /\ validation_results'[j].status = "failed"]_vars

\* C24 witness: one job has gone through the whole chain and completed, another has
\* failed after "Processing PDF..."
C24_Witness ==
    \E j, k \in Jobs :
        /\ pc[j] = "done"
        /\ validation_results[j].progress = <<"Validation completed successfully">>
        /\ Len(calls[j]) = 1
        /\ renders[j] # <<>>
        /\ pc[k] = "done"
        /\ validation_results[k].progress = <<"Validation failed: ">> \o E_pdf_read


\* the texts of the lines of a response: each line without the white space around it
LineTexts(response) ==
    [i \in 1..Len(SplitLines(response)) |-> Strip(SplitLines(response)[i])]

\* the lines among texts that contain a trigger word, letter case aside
TriggerLines(texts) ==
    {i \in 1..Len(texts) : \E w \in TriggerWords : Contains(Upper(texts[i]), w)}

\* the n-th of the lines in the set triggers, counting from the top
NthTriggerLine(triggers, n) ==
    CHOOSE i \in triggers : Cardinality({k \in triggers : k <= i}) = n

\* C25: when the heuristic tier scans a response, each line that contains one of
\* CRITICAL, MAJOR, MINOR, ERROR, VIOLATION, WRONG, MISSING (letter case aside) yields
\* exactly one finding, in line order, and no other line yields one; the finding's
\* message is the line's text, and its severity is CRITICAL if the line contains
\* CRITICAL or MUST, otherwise MAJOR if it contains MAJOR or IMPORTANT, otherwise
\* MINOR.  With no such line the only finding there can be is the one that quotes the
\* response as a whole.
C25_OneFindingPerTriggerLine ==
    \A j \in JobIds :
        (HasNormalized(j) /\ ~StructuredTierDecodes(content[j])) =>
            LET texts == LineTexts(content[j])
                triggers == TriggerLines(texts)
            IN  IF triggers = {}
                THEN errors[j] \in {<<>>, <<QuotedFinding(content[j])>>}
                ELSE /\ Len(errors[j]) = Cardinality(triggers)
                     /\ \A n \in 1..Len(errors[j]) :
                           \E text \in {Upper(texts[NthTriggerLine(triggers, n)])} :
                              /\ MessageOf(errors[j][n]) =
                                    JStr(texts[NthTriggerLine(triggers, n)])
                              /\ SeverityOf(errors[j][n]) =
                                    JStr(IF \E w \in {S_CRITICAL, S_MUST} : Contains(text, w)
                                         THEN S_CRITICAL
                                         ELSE IF \E w \in {S_MAJOR, S_IMPORTANT} :
                                                    Contains(text, w)
                                              THEN S_MAJOR
                                              ELSE S_MINOR)

\* C25 witness: a response of two lines, the first with no trigger word, the second
\* with WRONG and MUST, has become one CRITICAL finding
C25_Witness ==
    \E j \in Jobs :
        /\ HasNormalized(j)
        /\ content[j] = L_fine \o <<"\n">> \o L_must_wrong
        /\ Len(errors[j]) = 1
        /\ SeverityOf(errors[j][1]) = JStr(S_CRITICAL)
        /\ MessageOf(errors[j][1]) = JStr(L_must_wrong)


\* the prompt of validate_section: "Maximum 8 errors per section"
SectionCap ==
    8

\* the prompt of validate_overall_structure: "Maximum 3 errors"
StructureCap ==
    3

\* C26: in per-section mode each section call returns at most 8 findings and the
\* whole-document missing-sections call returns at most 3 findings, whatever number of
\* records the response of the completion service contains.
C26_ModeCallsAreCapped ==
    /\ pc[1] \in SectionTypes => Len(errors[1]) <= SectionCap
    /\ pc[1] = "structure" => Len(errors[1]) <= StructureCap

\* C27: in every invocation mode (single-pass, per-section, the whole-document check
\* for missing sections) a failed call of the completion service is converted into
\* exactly one CRITICAL finding whose message embeds the description of the failure;
\* no mode turns a failed call into an empty list of findings.
C27_FailedCallIsOneCriticalFinding ==
    (pc[1] \in SectionTypes \cup {"single_pass", "structure"} /\ calls[1] = <<"raised">>) =>
        /\ Len(errors[1]) = 1
        /\ SeverityOf(errors[1][1]) = JStr(S_CRITICAL)
        /\ \E desc \in CallFailures : Contains(MessageOf(errors[1][1]).v, desc)


\* C28: a step taken on behalf of a job (its submission, a statement of its background
\* task) changes no other job's record, so the status, progress message, findings and
\* artifact path of every other job stay as they were, and it writes no other job's
\* artifact; the findings a task holds and the findings stored in a record change only
\* in steps of that job; no two jobs have the same upload path or the same artifact path.
C28_JobsWriteOnlyTheirOwn ==
    [][/\ \A j \in Jobs :
             /\ j \in DOMAIN validation_results'
             /\ (validation_results'[j] # validation_results[j] \/ errors'[j] # errors[j]) =>
                   /\ cur = j \/ cur' = j
                   /\ \A k \in Jobs \ {j} :
                         /\ validation_results'[k] = validation_results[k]
                         /\ errors'[k] = errors[k]
       /\ \A j \in DOMAIN validation_results' \ Jobs :
             /\ \A k \in Jobs : validation_results'[k] = validation_results[k] /\ errors'[k] = errors[k]
             /\ validation_results'[j].file_path \notin uploads
             /\ uploads' = uploads \cup {validation_results'[j].file_path}
             /\ outputs' = outputs
       /\ \A p \in DOMAIN outputs' :
             (p \notin DOMAIN outputs \/ outputs'[p] # outputs[p]) =>
                 /\ cur \in Jobs
                 /\ p = OutputPath(cur)
                 /\ p \notin DOMAIN outputs
       /\ \A j, k \in DOMAIN validation_results' :
             j # k =>
                /\ validation_results'[j].file_path # validation_results'[k].file_path
                /\ OutputPath(j) # OutputPath(k)
                /\ validation_results'[j].output_path # Absent =>
                      validation_results'[j].output_path # validation_results'[k].output_path]_vars

\* C28 witness: two jobs have completed with different findings, each record holding
\* its own job's findings and artifact path
C28_Witness ==
    \E j, k \in Jobs :
        /\ j # k
        /\ validation_results[j].status = "completed"
        /\ validation_results[k].status = "completed"
        /\ validation_results[j].errors # validation_results[k].errors
        /\ validation_results[j].output_path = <<OutputPath(j)>>
        /\ validation_results[k].output_path = <<OutputPath(k)>>


\* the position in the full text just before the block of page k
BlockOffset(doc, k) ==
    Len(ExtractPages(doc.pages, k - 1))

\* "--- PAGE k ---", the delimiter without the line breaks around it
DelimiterText(k) ==
    SubSeq(PageDelimiter(k), 3, Len(PageDelimiter(k)) - 1)

\* the positions at which sub occurs in s
Occurrences(s, sub) ==
    {p \in 1..(Len(s) - Len(sub) + 1) : SubSeq(s, p, p + Len(sub) - 1) = sub}

\* C29: the extraction of a readable document's full text does not stop at a page whose
\* text cannot be extracted: for a document of n pages the text is made of n blocks, one
\* per page in page order, each the delimiter "--- PAGE k ---" followed by the page's
\* content, which for a page that fails is the marker "Error extracting: ..." and for
\* every other page its text; nothing else is in the text, and when no page quotes a
\* delimiter each delimiter occurs exactly once.  Asked for one page, the processor
\* returns a marker for a page that fails.
C29_EveryPageIsDelimitedAndKept ==
    \A x \in {extracted[i] : i \in 1..Len(extracted)} :
        /\ (x.op = "extract_pdf_text" /\ x.doc.readable) =>
              /\ \A k \in 1..Len(x.doc.pages) :
                    LET page == x.doc.pages[k]
                        start == BlockOffset(x.doc, k) + Len(PageDelimiter(k))
                        stop == IF k = Len(x.doc.pages) THEN Len(x.text)
                                ELSE BlockOffset(x.doc, k + 1)
                    IN  /\ SubSeq(x.text, BlockOffset(x.doc, k) + 1, start) = PageDelimiter(k)
                        /\ page.ok => SubSeq(x.text, start + 1, stop) = Utf8Replace(page.text)
                        /\ ~page.ok =>
                              SubSeq(x.text, start + 1, stop) = S_Error_extracting \o page.text
                        /\ (\A i \in 1..Len(x.doc.pages) : x.doc.pages[i].text # P_quoting) =>
                              Cardinality(Occurrences(x.text, DelimiterText(k))) = 1
              /\ Len(x.doc.pages) = 0 => x.text = <<>>
              /\ Occurrences(x.text, S_Error_reading) = {}
        /\ (x.op = "extract_text_from_page" /\ x.page_num < Len(x.doc.pages)
                /\ ~x.doc.pages[x.page_num + 1].ok) =>
              x.text = S_Error_extracting_text \o x.doc.pages[x.page_num + 1].text

\* C29 witness: a document of three pages whose second page fails has been extracted,
\* and the text of its third page is in the result
C29_Witness ==
    \E i \in 1..Len(extracted) :
        /\ extracted[i].op = "extract_pdf_text"
        /\ Len(extracted[i].doc.pages) = 3
        /\ extracted[i].doc.pages[1] = [ok |-> TRUE, text |-> P_title]
        /\ ~extracted[i].doc.pages[2].ok
        /\ extracted[i].doc.pages[3] = [ok |-> TRUE, text |-> P_two_lines]
        /\ Occurrences(extracted[i].text, P_two_lines) # {}
        /\ Occurrences(extracted[i].text, S_Error_extracting \o E_no_contents) # {}

====
